---- MODULE Spec2Model ----
(***************************************************************************)
(* Model of .github/scripts/trymerge.py: the merge-rule evaluator          *)
(* (find_matching_merge_rule), the check categorizer (categorize_checks)   *)
(* and the merge orchestrator (merge, GitHubPR.merge_into and the handler  *)
(* of main), whose effects on the forge and on git are kept in a log,     *)
(* the merge of a ghstack stack (get_ghstack_prs, merge_ghstack_into), the *)
(* labels (add_numbered_label), the reviews (get_approved_by), the revert   *)
(* (validate_revert, try_revert), the check runs of a PR                   *)
(* (add_workflow_conclusions) and their classification against the jobs of *)
(* the head and merge-base commits (get_classifications).                  *)
(*                                                                         *)
(* Python strings that are searched, split or compared by content are      *)
(* sequences of one-character strings; a Python dict is a function whose   *)
(* keys are iterated in the order of KeyOrder; Python None is None for     *)
(* scalars and the empty tuple for an Optional list (Some(l) == <<l>>).    *)
(***************************************************************************)
EXTENDS Integers, Sequences, FiniteSets, TLC

VARIABLES
    \* ---- categorize_checks (trymerge.py 1519-1544): arguments and locals
    check_runs,             \* JobNameToStateDict argument
    required_checks,        \* List[str] argument
    pending_checks,         \* local list, returned first
    failed_checks,          \* local list, returned second
    ok_failed_checks,       \* local list, as filled by the loop of 1533-1540
    cat_pc                  \* "call" before the call, "done" after the return

catVars == <<check_runs, required_checks, pending_checks, failed_checks,
             ok_failed_checks, cat_pc>>

VARIABLES
    \* ---- find_matching_merge_rule (trymerge.py 1149-1266): what it reads
    changed_files,          \* pr.get_changed_files()
    approved_by,            \* set(pr.get_approved_by())
    checks,                 \* get_combined_checks_from_pr_and_land_validation(pr, None)
    diff_revision,          \* pr.get_diff_revision(): None or the D-number of the body
    rules,                  \* read_merge_rules(...), in file order
    skip_mandatory_checks,
    skip_internal_checks,
    \* ---- its locals
    pc,                     \* "begin", "loop", "returned", "raised"
    rule_idx,               \* number of rules the for loop has taken from the list
    reject_reason_score,
    reject_reason,
    outcome,                \* the rule returned or the exception raised
    tried                   \* history: the rules tried so far with the gate each ended at

prVars == <<changed_files, approved_by, checks, diff_revision>>
argVars == <<rules, skip_mandatory_checks, skip_internal_checks>>
ruleVars == <<prVars, argVars, pc, rule_idx, reject_reason_score, reject_reason,
              outcome, tried>>

VARIABLES
    \* ---- merge (trymerge.py 1546-1668): arguments
    dry_run,
    comment_id,             \* Optional[int]: the empty tuple or Some(id)
    land_checks,            \* as returned by explainer.get_flags() (1562)
    timeout,                \* timeout_minutes * 60, in units of 300 s
    \* ---- what the forge answers
    last_push_age,          \* utcnow() - pr.last_pushed_at(), in half days
    sev,                    \* answer to the latest issue search of check_for_sev
    head_oid,               \* pr.last_commit()['oid'] of the current snapshot
    pr_closed,              \* pr.is_closed() of the current snapshot
    land_validation,        \* get_land_checkrun_conclusions(land_check_commit)
    \* ---- locals
    m_pc,                   \* position in main / merge / merge_into
    initial_commit_sha,
    land_check_commit,
    now,                    \* time.time() - start_time, in units of 300 s
    elapsed_time,
    last_exception,
    m_outcome,              \* how merge() ended
    \* ---- history
    log,                    \* the outward effects and rule evaluations, in order
    iterations              \* the real elapsed time at which each poll iteration began

VARIABLES
    \* ---- a ghstack PR (get_ghstack_prs 653-689, merge_ghstack_into 976-997)
    stack,                  \* the revisions of default_branch..orig_ref, oldest
                            \* first, each with the PR its message resolves to;
                            \* the empty tuple when the PR is no ghstack PR
    ghstack_prs,            \* local of merge_ghstack_into (985)
    stack_idx               \* entries of ghstack_prs the loop of 986 has taken

stackVars == <<stack, ghstack_prs, stack_idx>>

VARIABLES
    \* ---- the labels of a PR (get_labels 834-839, add_numbered_label 1015-1021)
    pr_labels,              \* the names of the labels the PR carries on the forge
    labels,                 \* self.labels: the empty tuple for None, or Some(list)
    label_calls             \* history: the calls of add_numbered_label on this PR

labelVars == <<pr_labels, labels, label_calls>>

VARIABLES
    \* ---- what validate_revert (1420-1453) reads
    revert_info,            \* of pr.info: the last comment, the authorAssociation of
                            \* the command, baseRepository.isPrivate, mergeCommit
    revert_repo             \* of the git repository: commits_resolving_gh_pr and the
                            \* Differential Revision of the commit's message

revertVars == <<revert_info, revert_repo>>

VARIABLES
    \* ---- the reviews of a PR (_get_reviews 768-786, get_approved_by 789-790)
    review_pages,           \* the pages of reviews the forge serves, in the order
                            \* they are fetched: the newest page first, the
                            \* reviews of one page oldest first
    cached_reviews,         \* self._reviews: the empty tuple for None, or Some(list)
    review_fetch,           \* the position of the loop 772-781
    approved_returned       \* what get_approved_by returned: <<>> or Some(list)

reviewVars == <<review_pages, cached_reviews, review_fetch, approved_returned>>

VARIABLES
    \* ---- runs of the program, each in a process of its own
    evaluations             \* history: what find_matching_merge_rule gave, a run each

VARIABLES
    \* ---- add_workflow_conclusions (551-629)
    checksuites,            \* the check suites of the commit, in the order the
                            \* forge serves them over its pages
    workflows,              \* the dict workflows, as the list of its values in
                            \* insertion order
    no_workflow_obj,        \* the jobs of no_workflow_obj
    suite_pos,              \* the edge and the check run the loops are at
    processed,              \* history: the check runs the inner loop has taken up
    conclusions             \* what the function returned: <<>> or Some(dict)

workflowVars == <<checksuites, workflows, no_workflow_obj, suite_pos, processed,
                  conclusions>>

VARIABLES
    \* ---- get_classifications (1341-1383)
    pr_conclusions,         \* the JobCheckState objects of the snapshot of the PR
                            \* (self.conclusions, 843-844), by check name
    rockset_results,        \* the rows get_rockset_results gave to this call
    flaky_rules,            \* what get_flaky_rules gave to this call
    head_sha_jobs,          \* the dicts of 1346-1347
    merge_base_jobs,
    class_pos               \* the place of the call: the row the loop of 1357 is at

classVars == <<pr_conclusions, rockset_results, flaky_rules, head_sha_jobs,
               merge_base_jobs, class_pos>>

extraVars == <<workflowVars, classVars>>

mergeArgs == <<dry_run, comment_id, land_checks, timeout>>
mergeCore == <<mergeArgs, last_push_age, sev, head_oid, pr_closed, land_validation, m_pc,
               initial_commit_sha, land_check_commit, now, elapsed_time,
               last_exception, m_outcome, log, iterations, stackVars>>
sideVars == <<labelVars, revertVars, reviewVars, evaluations, extraVars>>
mergeVars == <<mergeCore, sideVars>>

vars == <<catVars, ruleVars, mergeVars>>

-----------------------------------------------------------------------------
(* Bounds of the model *)

\* longest list of required patterns handed to categorize_checks
MaxRequired == 2

\* longest rule file
MaxRules == 2

-----------------------------------------------------------------------------
(* Strings *)

None == "None"

EasyCLA == <<"E", "a", "s", "y", "C", "L", "A">>
CLA == <<"C", "L", "A">>
\* the check run "cla / EasyCLA"
cla_EasyCLA == <<"c", "l", "a", " ", "/", " ", "E", "a", "s", "y", "C", "L", "A">>
pull == <<"p", "u", "l", "l">>
pull_a == <<"p", "u", "l", "l", " ", "/", " ", "a">>
pull_b == <<"p", "u", "l", "l", " ", "/", " ", "b">>
Lint == <<"L", "i", "n", "t">>
Lint_x == <<"L", "i", "n", "t", " ", "/", " ", "x">>
\* "Meta Internal-Only Changes Check"
MetaCheck == <<"M", "e", "t", "a", " ", "I", "n", "t", "e", "r", "n", "a", "l", "-",
               "O", "n", "l", "y", " ", "C", "h", "a", "n", "g", "e", "s", " ",
               "C", "h", "e", "c", "k">>

\* Python `p in s` on strings: p is a contiguous substring of s
Contains(p, s) ==
    \E i \in 0..(Len(s) - Len(p)) : SubSeq(s, i + 1, i + Len(p)) = p

\* str.upper() on the status strings of the model
upper(s) ==
    CASE s = "success" -> "SUCCESS"
      [] s = "skipped" -> "SKIPPED"
      [] s = "neutral" -> "NEUTRAL"
      [] s = "failure" -> "FAILURE"
      [] OTHER -> s

\* the order in which the forge reports check names (dict insertion order)
KeyOrder == <<cla_EasyCLA, pull_a, pull_b, Lint_x, Lint, MetaCheck>>

\* list(d.keys())
Keys(d) == SelectSeq(KeyOrder, LAMBDA n : n \in DOMAIN d)

\* [f(x) for x in s]
MapSeq(s, f(_)) == [k \in 1..Len(s) |-> f(s[k])]

\* the elements of a list
Range(s) == {s[k] : k \in 1..Len(s)}

\* lists over S of length at most n
SeqUpTo(S, n) == UNION {[1..k -> S] : k \in 0..n}

-----------------------------------------------------------------------------
(* JobCheckState and categorize_checks *)

JobCheckState(name, url, status, classification) ==
    [name |-> name, url |-> url, status |-> status,
     classification |-> classification]

is_passing_status(status) ==
    status /= None /\ upper(status) \in {"SUCCESS", "SKIPPED", "NEUTRAL"}

ok_failed_checks_threshold == 3

\* relevant_checknames with `==` in place of `in`: names equal to a pattern only
relevant_checknames_Exact(runs, required) ==
    SelectSeq(Keys(runs),
              LAMBDA name : \E k \in 1..Len(required) : required[k] = name)

\* 1528: the check names that contain some required pattern
relevant_checknames(runs, required) ==
    SelectSeq(Keys(runs),
              LAMBDA name : \E k \in 1..Len(required) : Contains(required[k], name))

\* 1530-1532: required patterns that no check name contains
missing_checks(runs, required) ==
    MapSeq(SelectSeq(required,
                     LAMBDA checkname : \A x \in DOMAIN runs : ~Contains(checkname, x)),
           LAMBDA checkname : <<checkname, None>>)

\* 1533-1540: the three lists when the loop over relevant_checknames ends
categorize_buckets(runs, required) ==
    LET relevant == relevant_checknames(runs, required)
        entry(checkname) == <<checkname, runs[checkname].url>>
        isPending(n) == runs[n].status = None
        isOkFailed(n) == /\ runs[n].status /= None
                         /\ ~is_passing_status(runs[n].status)
                         /\ runs[n].classification \in {"BROKEN_TRUNK", "FLAKY"}
        isFailed(n) == /\ runs[n].status /= None
                       /\ ~is_passing_status(runs[n].status)
                       /\ runs[n].classification \notin {"BROKEN_TRUNK", "FLAKY"}
    IN  [pending |-> missing_checks(runs, required)
                        \o MapSeq(SelectSeq(relevant, isPending), entry),
         failed |-> MapSeq(SelectSeq(relevant, isFailed), entry),
         ok_failed |-> MapSeq(SelectSeq(relevant, isOkFailed), entry)]

\* categorize_checks with `>=` in place of `>` at 1541
categorize_checks_AtThreshold(runs, required, threshold) ==
    LET b == categorize_buckets(runs, required)
    IN  <<b.pending,
          IF Len(b.ok_failed) >= threshold THEN b.failed \o b.ok_failed ELSE b.failed>>

\* 1519-1544: (pending_checks, failed_checks)
categorize_checks(runs, required, threshold) ==
    LET b == categorize_buckets(runs, required)
    IN  <<b.pending,
          IF Len(b.ok_failed) > threshold THEN b.failed \o b.ok_failed ELSE b.failed>>

-----------------------------------------------------------------------------
(* Merge rules, approvers and teams *)

Some(x) == <<x>>

MergeRule(name, patterns, approved, mandatory) ==
    [name |-> name, patterns |-> patterns, approved_by |-> approved,
     mandatory_checks_name |-> mandatory]

\* gitutils.patterns_to_regex(patterns).match(fname): a glob in which "*" stands
\* for any run of characters; the file must match one of the patterns
RECURSIVE glob_match(_, _)
glob_match(p, f) ==
    IF p = <<>> THEN f = <<>>
    ELSE IF Head(p) = "*"
         THEN \E k \in 0..Len(f) : glob_match(Tail(p), SubSeq(f, k + 1, Len(f)))
         ELSE f /= <<>> /\ Head(f) = Head(p) /\ glob_match(Tail(p), Tail(f))

patterns_match(patterns, fname) ==
    \E k \in 1..Len(patterns) : glob_match(patterns[k], fname)

\* str.split(sep) for a one-character separator
RECURSIVE split(_, _)
split(s, sep) ==
    IF \A i \in 1..Len(s) : s[i] /= sep THEN <<s>>
    ELSE LET i == CHOOSE j \in 1..Len(s) :
                      s[j] = sep /\ \A h \in 1..(j - 1) : s[h] /= sep
         IN  <<SubSeq(s, 1, i - 1)>> \o split(SubSeq(s, i + 1, Len(s)), sep)

RECURSIVE Flatten(_)
Flatten(pages) == IF pages = <<>> THEN <<>> ELSE Head(pages) \o Flatten(Tail(pages))

alice == <<"a">>
bob == <<"b">>
carol == <<"c">>
team_t == <<"o", "/", "t">>         \* a team of two pages of members
team_e == <<"o", "/", "e">>         \* a team without members
team_n == <<"o", "/", "n">>         \* no such team
team_bad == <<"o", "/", "t", "/", "x">>

\* The forge's answer to GH_GET_TEAM_MEMBERS_QUERY: the empty tuple when
\* organization.team is null, else Some(the pages of member logins)
org_team(org, name) ==
    CASE org = <<"o">> /\ name = <<"t">> -> Some(<< <<alice>>, <<carol>> >>)
      [] org = <<"o">> /\ name = <<"e">> -> Some(<< <<>> >>)
      [] OTHER -> <<>>

\* 527-539
gh_get_team_members(org, name) ==
    LET team == org_team(org, name)
    IN  IF team = <<>> THEN <<>> ELSE Flatten(team[1])

\* 1216-1217: `org, name = approver.split("/")` raises ValueError unless the
\* entry holds exactly one "/"
unpack_fails(approver) ==
    Contains(<<"/">>, approver) /\ Len(split(approver, "/")) /= 2

\* 1214-1220
rule_approvers_set(rule) ==
    UNION {IF Contains(<<"/">>, approver)
           THEN Range(gh_get_team_members(split(approver, "/")[1],
                                          split(approver, "/")[2]))
           ELSE {approver} : approver \in Range(rule.approved_by)}

\* 1188-1194
non_matching_files(rule, files) ==
    SelectSeq(files, LAMBDA fname : ~patterns_match(rule.patterns, fname))

\* required_checks_of with the filter of 1234 left out
required_checks_of_NoFilter(rule, skip_mandatory) ==
    IF rule.mandatory_checks_name /= <<>> THEN rule.mandatory_checks_name[1] ELSE <<>>

\* 1233-1234
required_checks_of(rule, skip_mandatory) ==
    LET mandatory_checks == IF rule.mandatory_checks_name /= <<>>
                            THEN rule.mandatory_checks_name[1] ELSE <<>>
    IN  SelectSeq(mandatory_checks,
                  LAMBDA x : Contains(EasyCLA, x) \/ ~skip_mandatory)

\* has_internal_changes without the test of the body marker (969-970)
has_internal_changes_NoBodyTest(diff, pr_checks) ==
    IF MetaCheck \notin DOMAIN pr_checks THEN FALSE
    ELSE pr_checks[MetaCheck].status /= "SUCCESS"

\* 967-974
has_internal_changes(diff, pr_checks) ==
    IF diff = None THEN FALSE
    ELSE IF MetaCheck \notin DOMAIN pr_checks THEN FALSE
    ELSE pr_checks[MetaCheck].status /= "SUCCESS"

ScoreApproval == 10000
ScorePending == 20000
ScoreFailed == 30000

Reason(kind, rule_name, n) == [kind |-> kind, rule |-> rule_name, n |-> n]

\* 1186-1257: the gate at which one iteration of the for loop leaves the rule,
\* with the score and the rejection text of that gate
check_rule(rule, files, approved, chks, skip_mandatory) ==
    LET non_matching == non_matching_files(rule, files)
        num_matching_files == Len(files) - Len(non_matching)
        approvers == rule_approvers_set(rule)
        cat == categorize_checks(chks, required_checks_of(rule, skip_mandatory),
                                 ok_failed_checks_threshold)
    IN  IF Len(non_matching) > 0
        THEN [gate |-> "files", score |-> num_matching_files,
              reason |-> Reason("files", rule.name, num_matching_files)]
        ELSE IF Len(rule.approved_by) > 0 /\ Cardinality(approved) = 0
        THEN [gate |-> "not_reviewed", score |-> ScoreApproval,
              reason |-> Reason("not_reviewed", rule.name, 0)]
        ELSE IF \E approver \in Range(rule.approved_by) : unpack_fails(approver)
        THEN [gate |-> "ValueError", score |-> 0,
              reason |-> Reason("ValueError", rule.name, 0)]
        ELSE IF Cardinality(approved \cap approvers) = 0 /\ Cardinality(approvers) > 0
        THEN [gate |-> "approvers", score |-> ScoreApproval,
              reason |-> Reason("approvers", rule.name, Cardinality(approvers))]
        ELSE IF Len(cat[2]) > 0
        THEN [gate |-> "failed", score |-> ScoreFailed,
              reason |-> Reason("failed", rule.name, Len(cat[2]))]
        ELSE IF Len(cat[1]) > 0
        THEN [gate |-> "pending", score |-> ScorePending,
              reason |-> Reason("pending", rule.name, Len(cat[1]))]
        ELSE [gate |-> "pass", score |-> 0, reason |-> Reason("pass", rule.name, 0)]

-----------------------------------------------------------------------------
(* find_matching_merge_rule, one action per way an iteration can end *)

NoRuleFound == Reason("no_rule_found", "", 0)          \* 1166
NoRulesDefined == Reason("no_rules_defined", "", 0)    \* 1170
InternalChanges == Reason("internal_changes", "", 0)   \* 1260

Outcome(kind, rule, message) == [kind |-> kind, rule |-> rule, message |-> message]

\* the rule the for loop is at
cur_rule == rules[rule_idx + 1]
verdict == check_rule(cur_rule, changed_files, approved_by, checks, skip_mandatory_checks)
InLoop == pc = "loop" /\ rule_idx < Len(rules)

Continue(gate) ==
    /\ rule_idx' = rule_idx + 1
    /\ tried' = Append(tried, [rule |-> cur_rule.name, gate |-> gate])
    /\ UNCHANGED <<pc, outcome, prVars, argVars, catVars, mergeVars>>

Finish(kind, res) ==
    /\ pc' = kind
    /\ outcome' = res
    /\ UNCHANGED <<reject_reason_score, reject_reason, prVars, argVars, catVars,
                   mergeVars>>

\* 1169-1171
RejectNoRules ==
    /\ pc = "begin" /\ Len(rules) = 0
    /\ Finish("raised", Outcome("RuntimeError", <<>>, NoRulesDefined))
    /\ UNCHANGED <<rule_idx, tried>>

\* 1185
EnterLoop ==
    /\ pc = "begin" /\ Len(rules) > 0
    /\ pc' = "loop"
    /\ UNCHANGED <<rule_idx, tried, outcome, reject_reason_score, reject_reason,
                   prVars, argVars, catVars, mergeVars>>

\* ScoredReject without the comparison: the last failure always wins
ScoredReject_Overwrite(score) ==
    /\ reject_reason_score' = score
    /\ reject_reason' = verdict.reason

\* the `if reject_reason_score < score:` update of 1208, 1224, 1239 and 1249
ScoredReject(score) ==
    IF reject_reason_score < score
    THEN /\ reject_reason_score' = score
         /\ reject_reason' = verdict.reason
    ELSE UNCHANGED <<reject_reason_score, reject_reason>>

\* 1195-1204
RejectFiles ==
    /\ InLoop /\ verdict.gate = "files"
    /\ IF verdict.score > reject_reason_score
       THEN /\ reject_reason_score' = verdict.score
            /\ reject_reason' = verdict.reason
       ELSE UNCHANGED <<reject_reason_score, reject_reason>>
    /\ Continue("files")

\* 1207-1211
RejectNotReviewed ==
    /\ InLoop /\ verdict.gate = "not_reviewed"
    /\ ScoredReject(ScoreApproval)
    /\ Continue("not_reviewed")

\* 1217
RaiseValueError ==
    /\ InLoop /\ verdict.gate = "ValueError"
    /\ Finish("raised", Outcome("ValueError", <<>>, verdict.reason))
    /\ rule_idx' = rule_idx + 1
    /\ tried' = Append(tried, [rule |-> cur_rule.name, gate |-> "ValueError"])

\* 1223-1230
RejectApprovers ==
    /\ InLoop /\ verdict.gate = "approvers"
    /\ ScoredReject(ScoreApproval)
    /\ Continue("approvers")

\* RejectFailedChecks raising at once instead of `continue`
RejectFailedChecks_Stops ==
    /\ InLoop /\ verdict.gate = "failed"
    /\ Finish("raised", Outcome("RuntimeError", <<>>, verdict.reason))
    /\ rule_idx' = rule_idx + 1
    /\ tried' = Append(tried, [rule |-> cur_rule.name, gate |-> "failed"])

\* 1238-1247
RejectFailedChecks ==
    /\ InLoop /\ verdict.gate = "failed"
    /\ ScoredReject(ScoreFailed)
    /\ Continue("failed")

\* 1248-1257
RejectPendingChecks ==
    /\ InLoop /\ verdict.gate = "pending"
    /\ ScoredReject(ScorePending)
    /\ Continue("pending")

\* 1259-1260
RaiseInternalChanges ==
    /\ InLoop /\ verdict.gate = "pass"
    /\ ~skip_internal_checks /\ has_internal_changes(diff_revision, checks)
    /\ Finish("raised", Outcome("RuntimeError", <<>>, InternalChanges))
    /\ rule_idx' = rule_idx + 1
    /\ tried' = Append(tried, [rule |-> cur_rule.name, gate |-> "internal"])

\* 1259-1262
ReturnRule ==
    /\ InLoop /\ verdict.gate = "pass"
    /\ ~(~skip_internal_checks /\ has_internal_changes(diff_revision, checks))
    /\ Finish("returned", Outcome("return", Some(cur_rule), verdict.reason))
    /\ rule_idx' = rule_idx + 1
    /\ tried' = Append(tried, [rule |-> cur_rule.name, gate |-> "pass"])

\* checks_missing with `>=` in place of `==`
checks_missing_AtLeast(score) == score >= ScorePending

\* 1264: the test that selects the typed error
checks_missing(score) == score = ScorePending

\* 1264-1265: `rule` is the loop variable, left at the last rule of the list
RaiseMandatoryChecksMissing ==
    /\ pc = "loop" /\ rule_idx = Len(rules)
    /\ checks_missing(reject_reason_score)
    /\ Finish("raised", Outcome("MandatoryChecksMissingError",
                                Some(rules[rule_idx]), reject_reason))
    /\ UNCHANGED <<rule_idx, tried>>

\* 1266
RaiseRejected ==
    /\ pc = "loop" /\ rule_idx = Len(rules)
    /\ ~checks_missing(reject_reason_score)
    /\ Finish("raised", Outcome("RuntimeError", <<>>, reject_reason))
    /\ UNCHANGED <<rule_idx, tried>>

-----------------------------------------------------------------------------
(* Check maps *)

\* (status, classification) pairs a reported check may carry
CheckStates ==
    {<<None, None>>, <<None, "FLAKY">>, <<"SUCCESS", None>>, <<"skipped", None>>,
     <<"FAILURE", None>>, <<"FAILURE", "FLAKY">>, <<"CANCELLED", "BROKEN_TRUNK">>}

CheckMaps(names) ==
    UNION {[D -> CheckStates] : D \in SUBSET names}

AsCheckRuns(m) ==
    [n \in DOMAIN m |-> JobCheckState(n, "url", m[n][1], m[n][2])]

-----------------------------------------------------------------------------
(* Inputs of find_matching_merge_rule *)

file_ax == <<"a", "/", "x">>
file_ay == <<"a", "/", "y">>
file_bz == <<"b", "/", "z">>

ChangedFilesChoices == {<<file_ax>>, <<file_bz>>, <<file_ax, file_ay, file_bz>>}

ApprovedByChoices == {{}, {alice}, {bob}}

\* rule files are lists of these rules, named by their place in the file
RuleNames == <<"r1", "r2", "r3", "r4">>

RuleChoices ==
    {[patterns |-> << <<"*">> >>, approved_by |-> <<>>, mandatory |-> <<>>],
     [patterns |-> << <<"a", "/", "*">> >>, approved_by |-> <<alice>>,
      mandatory |-> Some(<<EasyCLA, pull>>)],
     [patterns |-> << <<"*">> >>, approved_by |-> <<team_t>>,
      mandatory |-> Some(<<CLA>>)],
     [patterns |-> << <<"*">> >>, approved_by |-> <<team_n, team_e>>,
      mandatory |-> Some(<<>>)],
     [patterns |-> << <<"b", "/", "*">> >>, approved_by |-> <<team_bad>>,
      mandatory |-> <<>>]}

RuleFiles ==
    {[k \in 1..Len(cfg) |-> MergeRule(RuleNames[k], cfg[k].patterns,
                                      cfg[k].approved_by, cfg[k].mandatory)] :
        cfg \in SeqUpTo(RuleChoices, MaxRules)}

\* the combined, classified checks of the PR
PRChecks ==
    {AsCheckRuns(m) : m \in
        {e @@ p @@ i :
            e \in CheckMaps({cla_EasyCLA}) \
                    {(cla_EasyCLA :> <<"skipped", None>>),
                     (cla_EasyCLA :> <<None, "FLAKY">>),
                     (cla_EasyCLA :> <<"CANCELLED", "BROKEN_TRUNK">>)},
            p \in {(pull_a :> <<"SUCCESS", None>>), (pull_a :> <<"FAILURE", None>>)},
            i \in {<<>>, (MetaCheck :> <<"SUCCESS", None>>),
                   (MetaCheck :> <<"FAILURE", None>>)}}}

RuleIdle ==
    /\ changed_files = <<>> /\ approved_by = {} /\ checks = <<>>
    /\ diff_revision = None /\ rules = <<>>
    /\ skip_mandatory_checks = FALSE /\ skip_internal_checks = FALSE
    /\ pc = "idle" /\ rule_idx = 0
    /\ reject_reason_score = 0 /\ reject_reason = NoRuleFound
    /\ outcome = Outcome("none", <<>>, NoRuleFound) /\ tried = <<>>

CatIdle ==
    /\ check_runs = <<>> /\ required_checks = <<>>
    /\ pending_checks = <<>> /\ failed_checks = <<>> /\ ok_failed_checks = <<>>
    /\ cat_pc = "idle"

MergeOutcome(kind, message) == [kind |-> kind, message |-> message]

LabelIdle == pr_labels = {} /\ labels = <<>> /\ label_calls = <<>>
RevertIdle == revert_info = <<>> /\ revert_repo = <<>>
ReviewIdle ==
    /\ review_pages = <<>> /\ cached_reviews = <<>>
    /\ review_fetch = [pc |-> "idle", page |-> 0] /\ approved_returned = <<>>
EvaluationIdle == evaluations = <<>>
WorkflowIdle ==
    /\ checksuites = <<>> /\ workflows = <<>> /\ no_workflow_obj = <<>>
    /\ suite_pos = [edge |-> 0, run |-> 0] /\ processed = <<>> /\ conclusions = <<>>
ClassIdle ==
    /\ pr_conclusions = <<>> /\ rockset_results = <<>> /\ flaky_rules = <<>>
    /\ head_sha_jobs = <<>> /\ merge_base_jobs = <<>>
    /\ class_pos = [pc |-> "idle", row |-> 0]
ExtraIdle == WorkflowIdle /\ ClassIdle
SideIdle == LabelIdle /\ RevertIdle /\ ReviewIdle /\ EvaluationIdle /\ ExtraIdle

MergeCoreIdle ==
    /\ dry_run = FALSE /\ comment_id = <<>> /\ land_checks = FALSE /\ timeout = 0
    /\ last_push_age = 0 /\ sev = <<>> /\ head_oid = None /\ land_validation = <<>>
    /\ pr_closed = FALSE
    /\ m_pc = "idle" /\ initial_commit_sha = None /\ land_check_commit = None
    /\ now = 0 /\ elapsed_time = 0 /\ last_exception = ""
    /\ m_outcome = MergeOutcome("none", "") /\ log = <<>> /\ iterations = <<>>
    /\ stack = <<>> /\ ghstack_prs = <<>> /\ stack_idx = 0

MergeIdle == MergeCoreIdle /\ SideIdle

\* the state when the loop of 1186 is about to start
Init ==
    /\ changed_files \in ChangedFilesChoices
    /\ approved_by \in ApprovedByChoices
    /\ checks \in PRChecks
    /\ diff_revision \in {None, "D1"}
    /\ (diff_revision = None /\ MetaCheck \in DOMAIN checks
            => checks[MetaCheck].status = "FAILURE")
    /\ rules \in RuleFiles
    /\ skip_mandatory_checks \in BOOLEAN
    /\ skip_internal_checks \in BOOLEAN
    \* the flag is read only by the gate of 1259, which it decides only here
    /\ (skip_internal_checks => has_internal_changes(diff_revision, checks))
    /\ pc = "begin"
    /\ rule_idx = 0
    /\ reject_reason_score = 0
    /\ reject_reason = NoRuleFound
    /\ outcome = Outcome("none", <<>>, NoRuleFound)
    /\ tried = <<>>
    /\ CatIdle
    /\ MergeIdle

Next ==
    \/ RejectNoRules
    \/ EnterLoop
    \/ RejectFiles
    \/ RejectNotReviewed
    \/ RaiseValueError
    \/ RejectApprovers
    \/ RejectFailedChecks
    \/ RejectPendingChecks
    \/ RaiseInternalChanges
    \/ ReturnRule
    \/ RaiseMandatoryChecksMissing
    \/ RaiseRejected

Spec == Init /\ [][Next]_vars

-----------------------------------------------------------------------------
(* Inputs of categorize_checks *)

RequiredPatterns == {pull, Lint, CLA}

CatNames == {pull_a, pull_b, Lint_x, Lint}

CatInit ==
    /\ \E m \in CheckMaps(CatNames) : check_runs = AsCheckRuns(m)
    /\ required_checks \in SeqUpTo(RequiredPatterns, MaxRequired)
    /\ pending_checks = <<>>
    /\ failed_checks = <<>>
    /\ ok_failed_checks = <<>>
    /\ cat_pc = "call"
    /\ RuleIdle
    /\ MergeIdle

\* one call of categorize_checks with the default threshold
CategorizeChecks ==
    /\ cat_pc = "call"
    /\ LET b == categorize_buckets(check_runs, required_checks)
           r == categorize_checks(check_runs, required_checks, ok_failed_checks_threshold)
       IN  /\ pending_checks' = r[1]
           /\ failed_checks' = r[2]
           /\ ok_failed_checks' = b.ok_failed
    /\ cat_pc' = "done"
    /\ UNCHANGED <<check_runs, required_checks, ruleVars, mergeVars>>

CatNext == CategorizeChecks

SpecCat == CatInit /\ [][CatNext]_vars

-----------------------------------------------------------------------------
(* find_matching_merge_rule as a function of what one call reads, and the     *)
(* other functions merge() calls                                              *)

\* 1186-1266: the scan from rule k on, with the running score and reason
RECURSIVE scan_rules(_, _, _, _, _, _, _)
scan_rules(rls, k, score, reason, p, skip_mandatory, skip_internal) ==
    IF k > Len(rls)
    THEN IF checks_missing(score)
         THEN Outcome("MandatoryChecksMissingError", Some(rls[Len(rls)]), reason)
         ELSE Outcome("RuntimeError", <<>>, reason)
    ELSE LET v == check_rule(rls[k], p.changed_files, p.approved_by, p.checks,
                             skip_mandatory)
         IN  CASE v.gate = "pass" ->
                    IF ~skip_internal /\ has_internal_changes(p.diff_revision, p.pr_checks)
                    THEN Outcome("RuntimeError", <<>>, InternalChanges)
                    ELSE Outcome("return", Some(rls[k]), v.reason)
               [] v.gate = "ValueError" -> Outcome("ValueError", <<>>, v.reason)
               [] OTHER ->
                    scan_rules(rls, k + 1,
                               IF score < v.score THEN v.score ELSE score,
                               IF score < v.score THEN v.reason ELSE reason,
                               p, skip_mandatory, skip_internal)

\* 1149-1266
find_matching_merge_rule(p, rls, skip_mandatory, skip_internal) ==
    IF Len(rls) = 0
    THEN Outcome("RuntimeError", <<>>, NoRulesDefined)
    ELSE scan_rules(rls, 1, 0, NoRuleFound, p, skip_mandatory, skip_internal)

\* the dict merge of 1409 with the operands exchanged
get_combined_checks_from_pr_and_land_validation_PRWins(pr_checks, land, commit) ==
    LET land_validation_checks == IF commit /= None THEN land ELSE <<>>
    IN  [n \in DOMAIN pr_checks \cup DOMAIN land_validation_checks |->
            IF n \in DOMAIN pr_checks
            THEN pr_checks[n] ELSE land_validation_checks[n]]

\* 1406-1410: {**pr_checks, **land_validation_checks}
get_combined_checks_from_pr_and_land_validation(pr_checks, land, commit) ==
    LET land_validation_checks == IF commit /= None THEN land ELSE <<>>
    IN  [n \in DOMAIN pr_checks \cup DOMAIN land_validation_checks |->
            IF n \in DOMAIN land_validation_checks
            THEN land_validation_checks[n] ELSE pr_checks[n]]

\* 1414-1418 with the lambda of 1628
startup_failures(chks) ==
    SelectSeq(Keys(chks), LAMBDA n : chks[n].status = "STARTUP_FAILURE")

\* the comments of the PR by database id (950)
bot_login == "facebook-github-bot"
get_comment_by_id(id) ==
    CASE id = 1 -> [author_login |-> bot_login, editor_login |-> None]
      [] id = 2 -> [author_login |-> bot_login, editor_login |-> "someone"]
      [] OTHER -> [author_login |-> "someone", editor_login |-> None]

\* can_skip_internal_checks without the test of the editor (648-649)
can_skip_internal_checks_AnyBotComment(id) ==
    IF id = <<>> THEN FALSE
    ELSE get_comment_by_id(id[1]).author_login = bot_login

\* 645-651
can_skip_internal_checks(id) ==
    IF id = <<>> THEN FALSE
    ELSE LET comment == get_comment_by_id(id[1])
         IN  IF comment.editor_login /= None THEN FALSE
             ELSE comment.author_login = bot_login

\* str.lower() on the letters of the issue bodies of the model
lower(s) ==
    [i \in 1..Len(s) |-> CASE s[i] = "M" -> "m" [] s[i] = "B" -> "b" [] OTHER -> s[i]]

merge_blocking == <<"m", "e", "r", "g", "e", " ", "b", "l", "o", "c", "k", "i", "n", "g">>

\* check_for_sev without the lower() of 1497
check_for_sev_CaseSensitive(response, skip_mandatory) ==
    IF skip_mandatory THEN FALSE
    ELSE /\ response.total_count /= 0
         /\ \E i \in 1..Len(response.items) :
                Contains(merge_blocking, response.items[i].body)

\* 1484-1502: TRUE when check_for_sev raises on the answer of the issue search
check_for_sev(response, skip_mandatory) ==
    IF skip_mandatory THEN FALSE
    ELSE /\ response.total_count /= 0
         /\ \E i \in 1..Len(response.items) :
                Contains(merge_blocking, lower(response.items[i].body))

\* 1504-1514: "ok", "MandatoryChecksMissingError" or "RuntimeError"
validate_land_time_checks(land) ==
    LET cat == categorize_checks(land, Keys(land), ok_failed_checks_threshold)
    IN  IF Len(Keys(land)) = 0 THEN "MandatoryChecksMissingError"
        ELSE IF Len(cat[2]) > 0 THEN "RuntimeError"
        ELSE IF Len(cat[1]) > 0 THEN "MandatoryChecksMissingError"
        ELSE "ok"

\* 1595: timedelta.days of an age given in half days
days(age) == age \div 2
stale_pr_days == 3

-----------------------------------------------------------------------------
(* ghstack PRs: get_ghstack_prs *)

\* 730-731
is_ghstack_pr == stack /= <<>>

\* the PR merge() was called for, and its repository
pr_num == "12"
own_repo == "pytorch/pytorch"

\* a revision of default_branch..orig_ref: repo and num are what
\* RE_PULL_REQUEST_RESOLVED finds in its commit message (repo is None when it finds
\* nothing), message is the commit message of the revision, and closed, tree,
\* approved_by and checks are what the forge says of the PR of that number (tree
\* is the tree oid of its head commit)
StackRev(rev, repo, num, closed, tree, message, approved, chks) ==
    [rev |-> rev, repo |-> repo, num |-> num, closed |-> closed, tree |-> tree,
     message |-> message, approved_by |-> approved, checks |-> chks]

\* 662-676: the revisions that enter entire_stack
in_entire_stack(e) == e.num = pr_num \/ ~e.closed

\* get_ghstack_prs with the sync check of 680-681 passing for every entry
get_ghstack_prs_NoSyncCheck(stk) ==
    LET unresolved == {i \in 1..Len(stk) : stk[i].repo /= own_repo}
    IN  IF unresolved /= {}
        THEN LET i == CHOOSE j \in unresolved : \A k \in unresolved : j <= k
             IN  [kind |-> "RuntimeError",
                  message |-> IF stk[i].repo = None
                              THEN "no_pr_resolved" ELSE "wrong_repo",
                  prs |-> <<>>]
        ELSE [kind |-> "return", message |-> "",
              prs |-> SelectSeq(stk, in_entire_stack)]

\* 653-689
get_ghstack_prs(stk) ==
    LET unresolved == {i \in 1..Len(stk) : stk[i].repo /= own_repo}
        entire_stack == SelectSeq(stk, in_entire_stack)
    IN  IF unresolved /= {}
        THEN LET i == CHOOSE j \in unresolved : \A k \in unresolved : j <= k
             IN  [kind |-> "RuntimeError",
                  message |-> IF stk[i].repo = None
                              THEN "no_pr_resolved" ELSE "wrong_repo",
                  prs |-> <<>>]
        ELSE IF \E k \in 1..Len(entire_stack) :
                    ~Contains(entire_stack[k].tree, entire_stack[k].message)
        THEN [kind |-> "RuntimeError", message |-> "out_of_sync", prs |-> <<>>]
        ELSE [kind |-> "return", message |-> "", prs |-> entire_stack]

\* 1565-1566: the stack of a ghstack PR is in sync when merge() starts
StackInSyncAtStart == is_ghstack_pr => get_ghstack_prs(stack).kind = "return"

-----------------------------------------------------------------------------
(* merge(): the steps before the poll loop *)

Effect(op, arg) == [op |-> op, arg |-> arg]

gh_post_pr_comment_Posted(text) == Effect("comment", text)

\* 492-500: a comment is printed, not posted, in a dry run
gh_post_pr_comment(text) ==
    IF dry_run THEN Effect("print", text) ELSE Effect("comment", text)

\* 1094-1097 under the guard `if land_checks and not dry_run`
delete_land_time_check_branch ==
    IF land_checks /\ ~dry_run THEN <<Effect("delete_branch", "landchecks")>> ELSE <<>>

\* the snapshot a rule evaluation reads, with the land checks of land_commit
PRView(land_commit) ==
    [changed_files |-> changed_files, approved_by |-> approved_by,
     checks |-> get_combined_checks_from_pr_and_land_validation(
                    checks, land_validation, land_commit),
     pr_checks |-> checks, diff_revision |-> diff_revision]

mergeFrame == <<catVars, changed_files, approved_by, diff_revision, argVars, pc,
                rule_idx, reject_reason_score, reject_reason, tried,
                mergeArgs, last_push_age, initial_commit_sha, stackVars, sideVars>>

\* an exception leaves merge()
Raise(kind, message, effects) ==
    /\ m_pc' = "raised"
    /\ m_outcome' = MergeOutcome(kind, message)
    /\ log' = log \o effects

\* 1653-1656
Sleep(message, effects) ==
    /\ m_pc' = "poll_top"
    /\ last_exception' = message
    /\ now' = now + 1
    /\ log' = log \o effects \o <<Effect("sleep", "300s")>>
    /\ UNCHANGED m_outcome

\* the answers of the issue search
SevResponses ==
    {[total_count |-> 0, items |-> <<>>],
     [total_count |-> 1, items |-> <<[body |-> <<"s", "e", "v">>]>>],
     [total_count |-> 2,
      items |-> <<[body |-> <<"s", "e", "v">>],
                  [body |-> <<"M", "e", "r", "g", "e", " ", "B", "l", "o", "c", "k",
                              "i", "n", "g">>]>>]}

\* check_for_sev returns
SevPasses ==
    \E r \in SevResponses :
        sev' = r /\ ~check_for_sev(r, skip_mandatory_checks)

\* check_for_sev raises
SevRaises ==
    \E r \in SevResponses :
        sev' = r /\ check_for_sev(r, skip_mandatory_checks)

\* 1570
bypass == skip_mandatory_checks \/ can_skip_internal_checks(comment_id)

\* 1568: the first check_for_sev raises
SevBlocksAtStart ==
    /\ m_pc = "start"
    /\ StackInSyncAtStart
    /\ SevRaises
    /\ Raise("RuntimeError", "sev", <<>>)
    /\ UNCHANGED <<mergeFrame, outcome, checks, head_oid, pr_closed, land_validation,
                   land_check_commit, now, elapsed_time, last_exception, iterations>>

\* 1570-1573, up to the call of merge_into
BypassToMergeInto ==
    /\ m_pc = "start"
    /\ StackInSyncAtStart
    /\ SevPasses
    /\ bypass
    /\ log' = Append(log, gh_post_pr_comment("merge_message"))
    /\ m_pc' = "bypass_call"
    /\ UNCHANGED <<mergeFrame, outcome, checks, head_oid, pr_closed, land_validation,
                   land_check_commit, now, elapsed_time, last_exception, m_outcome,
                   iterations>>

\* 1568-1584: find_matching_merge_rule(pr, repo, skip_mandatory_checks=True)
ApprovalGate ==
    /\ m_pc = "start"
    /\ StackInSyncAtStart
    /\ SevPasses
    /\ ~bypass
    /\ outcome' = find_matching_merge_rule(PRView(None), rules, TRUE, FALSE)
    /\ log' = Append(log, Effect("evaluate", "gate"))
    /\ m_pc' = "gate"
    /\ UNCHANGED <<mergeFrame, checks, head_oid, pr_closed, land_validation, land_check_commit,
                   now, elapsed_time, last_exception, m_outcome, iterations>>

\* 1584: the PR does not pass the rules with skip_mandatory_checks=True
GateRejected ==
    /\ m_pc = "gate"
    /\ outcome.kind /= "return"
    /\ Raise(outcome.kind, "rejected", <<>>)
    /\ UNCHANGED <<mergeFrame, outcome, sev, checks, head_oid, pr_closed, land_validation,
                   land_check_commit, now, elapsed_time, last_exception, iterations>>

\* 1586-1594: the land-check branch and the merge message
StartLandChecks ==
    (IF land_checks /\ ~dry_run
     THEN <<Effect("create_branch", "landchecks")>> ELSE <<>>)
    \o <<gh_post_pr_comment("merge_message")>>

\* 1586-1600: the PR is too stale
StalePR ==
    /\ m_pc = "gate"
    /\ outcome.kind = "return"
    /\ days(last_push_age) > stale_pr_days
    /\ land_check_commit' = IF land_checks /\ ~dry_run THEN "c1" ELSE None
    /\ Raise("RuntimeError", "stale", StartLandChecks \o delete_land_time_check_branch)
    /\ UNCHANGED <<mergeFrame, outcome, sev, checks, head_oid, pr_closed, land_validation,
                   now, elapsed_time, last_exception, iterations>>

\* EnterPoll without the approval gate of 1584 having returned
EnterPoll_Ungated ==
    /\ m_pc = "gate"
    /\ ~(days(last_push_age) > stale_pr_days)
    /\ land_check_commit' = IF land_checks /\ ~dry_run THEN "c1" ELSE None
    /\ log' = log \o StartLandChecks
    /\ m_pc' = "poll_top"
    /\ now' = 0 /\ elapsed_time' = 0 /\ last_exception' = ""
    /\ UNCHANGED <<mergeFrame, outcome, sev, checks, head_oid, pr_closed, land_validation,
                   m_outcome, iterations>>

\* 1586-1604: the poll loop is reached
EnterPoll ==
    /\ m_pc = "gate"
    /\ outcome.kind = "return"
    /\ ~(days(last_push_age) > stale_pr_days)
    /\ land_check_commit' = IF land_checks /\ ~dry_run THEN "c1" ELSE None
    /\ log' = log \o StartLandChecks
    /\ m_pc' = "poll_top"
    /\ now' = 0 /\ elapsed_time' = 0 /\ last_exception' = ""
    /\ UNCHANGED <<mergeFrame, outcome, sev, checks, head_oid, pr_closed, land_validation,
                   m_outcome, iterations>>

-----------------------------------------------------------------------------
(* merge(): the poll loop *)

\* the check maps a snapshot of the PR may report
MergeCheckChoices ==
    {AsCheckRuns(m) : m \in
        {(pull_a :> <<"SUCCESS", None>>) @@ (Lint_x :> <<"SUCCESS", None>>),
         (Lint_x :> <<"SUCCESS", None>>),
         (pull_a :> <<None, None>>) @@ (Lint_x :> <<"SUCCESS", None>>),
         (pull_a :> <<"SUCCESS", None>>) @@ (Lint_x :> <<None, None>>),
         (pull_a :> <<"SUCCESS", None>>) @@ (Lint_x :> <<"FAILURE", None>>),
         (pull_a :> <<None, None>>) @@ (Lint_x :> <<"STARTUP_FAILURE", None>>),
         (pull_a :> <<"FAILURE", None>>) @@ (Lint_x :> <<"SUCCESS", None>>),
         (pull_a :> <<None, None>>) @@ (Lint_x :> <<"FAILURE", None>>),
         (pull_a :> <<"SUCCESS", None>>) @@ (Lint_x :> <<"FAILURE", "FLAKY">>)}}

\* the checks of the land-check commit, each with the classification that
\* get_classifications gives it in the combined view (1411)
LandCheckChoices ==
    {<<>>,
     (pull_a :> JobCheckState(pull_a, "url", "SUCCESS", None)),
     (pull_a :> JobCheckState(pull_a, "url", None, None)),
     (pull_a :> JobCheckState(pull_a, "url", "FAILURE", None)),
     (Lint_x :> JobCheckState(Lint_x, "url", "SUCCESS", None)),
     (pull_a :> JobCheckState(pull_a, "url", "FAILURE", "FLAKY"))}

\* get_land_checkrun_conclusions returns the checks without classification
unclassified(land) ==
    [n \in DOMAIN land |-> [land[n] EXCEPT !.classification = None]]

OidChoices == {"oid1", "oid2"}

\* 1605
InLoopOfMerge == m_pc = "poll_top" /\ elapsed_time < timeout

\* 1610: GitHubPR(org, project, pr_num) builds a new snapshot
RebuildSnapshot(oid) ==
    /\ head_oid' = oid
    /\ pr_closed' \in BOOLEAN
    /\ elapsed_time' = now
    /\ iterations' = Append(iterations, now)

\* 1620-1622: the patterns taken from the rule of the error
required_of_poll ==
    IF /\ outcome.kind = "MandatoryChecksMissingError"
       /\ outcome.rule /= <<>>
       /\ outcome.rule[1].mandatory_checks_name /= <<>>
    THEN outcome.rule[1].mandatory_checks_name[1]
    ELSE <<>>

\* 1625-1626
poll_checks ==
    get_combined_checks_from_pr_and_land_validation(checks, land_validation,
                                                    land_check_commit)
poll_categories ==
    categorize_checks(poll_checks,
                      required_of_poll
                          \o SelectSeq(Keys(poll_checks),
                                       LAMBDA x : x \notin Range(required_of_poll)),
                      ok_failed_checks_threshold)

RuleEvaluated == outcome.kind \in {"return", "MandatoryChecksMissingError"}
\* NoStartupFailures without the test of 1628-1629
NoStartupFailures_Ignored == RuleEvaluated

NoStartupFailures == RuleEvaluated /\ Len(startup_failures(poll_checks)) = 0
NoFailedJobs == NoStartupFailures /\ Len(poll_categories[2]) = 0
NoPendingJobs == NoFailedJobs /\ Len(poll_categories[1]) = 0
ValidatesLandChecks == land_checks /\ land_check_commit /= None

pollFrame == <<mergeFrame, outcome, checks, head_oid, pr_closed, land_validation,
               land_check_commit, elapsed_time, iterations>>

\* PollTimeout taken only when the elapsed time is beyond the timeout
PollTimeout_OnlyBeyond ==
    /\ m_pc = "poll_top" /\ elapsed_time > timeout
    /\ Raise("RuntimeError", "timeout",
             IF dry_run THEN <<>>
             ELSE delete_land_time_check_branch \o <<Effect("label", "land-failed")>>)
    /\ UNCHANGED <<pollFrame, sev, now, last_exception>>

\* PollTimeout without the label of 1667
PollTimeout_NoLabel ==
    /\ m_pc = "poll_top" /\ ~(elapsed_time < timeout)
    /\ Raise("RuntimeError", "timeout",
             IF dry_run THEN <<>> ELSE delete_land_time_check_branch)
    /\ UNCHANGED <<pollFrame, sev, now, last_exception>>

\* 1605, 1661-1668
PollTimeout ==
    /\ m_pc = "poll_top" /\ ~(elapsed_time < timeout)
    /\ Raise("RuntimeError", "timeout",
             IF dry_run THEN <<>>
             ELSE delete_land_time_check_branch \o <<Effect("label", "land-failed")>>)
    /\ UNCHANGED <<pollFrame, sev, now, last_exception>>

\* 1606: check_for_sev raises at the top of an iteration
PollSevBlocks ==
    /\ InLoopOfMerge
    /\ SevRaises
    /\ iterations' = Append(iterations, now)
    /\ Raise("RuntimeError", "sev", <<>>)
    /\ UNCHANGED <<mergeFrame, outcome, checks, head_oid, pr_closed, land_validation,
                   land_check_commit, now, elapsed_time, last_exception>>

\* 1606-1614: the head commit is no longer the one merge() started with
PollNewCommits ==
    /\ InLoopOfMerge
    /\ SevPasses
    /\ \E oid \in OidChoices :
          /\ initial_commit_sha /= oid
          /\ RebuildSnapshot(oid)
          /\ Raise("RuntimeError", "new_commits",
                   <<Effect("snapshot", oid)>> \o delete_land_time_check_branch)
    /\ UNCHANGED <<mergeFrame, outcome, checks, land_validation, land_check_commit,
                   now, last_exception>>

\* PollSnapshot without the comparison of 1611: any head commit goes on
PollSnapshot_AnyOid ==
    /\ InLoopOfMerge
    /\ SevPasses
    /\ \E oid \in OidChoices :
          /\ RebuildSnapshot(oid)
          /\ log' = Append(log, Effect("snapshot", oid))
    /\ checks' \in MergeCheckChoices
    /\ land_validation' \in
          (IF land_check_commit /= None THEN LandCheckChoices ELSE {<<>>})
    /\ m_pc' = "poll_rule"
    /\ UNCHANGED <<mergeFrame, outcome, land_check_commit, now, last_exception,
                   m_outcome>>

\* 1606-1615: the new snapshot has the same head commit
PollSnapshot ==
    /\ InLoopOfMerge
    /\ SevPasses
    /\ \E oid \in OidChoices :
          /\ ~(initial_commit_sha /= oid)
          /\ RebuildSnapshot(oid)
          /\ log' = Append(log, Effect("snapshot", oid))
    /\ checks' \in MergeCheckChoices
    /\ land_validation' \in
          (IF land_check_commit /= None THEN LandCheckChoices ELSE {<<>>})
    /\ m_pc' = "poll_rule"
    /\ UNCHANGED <<mergeFrame, outcome, land_check_commit, now, last_exception,
                   m_outcome>>

\* 1616-1623: find_matching_merge_rule(pr, repo)
PollEvaluateRule ==
    /\ m_pc = "poll_rule"
    /\ outcome' = find_matching_merge_rule(PRView(None), rules, FALSE, FALSE)
    /\ log' = Append(log, Effect("evaluate", "poll"))
    /\ m_pc' = "poll_eval"
    /\ UNCHANGED <<mergeFrame, sev, checks, head_oid, pr_closed, land_validation,
                   land_check_commit, now, elapsed_time, last_exception, m_outcome,
                   iterations>>

\* 1619, 1657-1660: find_matching_merge_rule raised another error than
\* MandatoryChecksMissingError
PollRuleRejected ==
    /\ m_pc = "poll_eval"
    /\ ~RuleEvaluated
    /\ Raise(outcome.kind, "rejected",
             IF outcome.kind = "RuntimeError"
             THEN delete_land_time_check_branch ELSE <<>>)
    /\ UNCHANGED <<pollFrame, sev, now, last_exception>>

\* 1628-1631, 1657-1660
PollStartupFailures ==
    /\ m_pc = "poll_eval"
    /\ RuleEvaluated /\ ~NoStartupFailures
    /\ Raise("RuntimeError", "startup_failures", delete_land_time_check_branch)
    /\ UNCHANGED <<pollFrame, sev, now, last_exception>>

\* 1634-1636, 1657-1660
PollFailedJobs ==
    /\ m_pc = "poll_eval"
    /\ NoStartupFailures /\ ~NoFailedJobs
    /\ Raise("RuntimeError", "failed_jobs", delete_land_time_check_branch)
    /\ UNCHANGED <<pollFrame, sev, now, last_exception>>

\* PollPending with pending checks treated like failed ones
PollPending_Terminal ==
    /\ m_pc = "poll_eval"
    /\ NoFailedJobs /\ ~NoPendingJobs
    /\ Raise("RuntimeError", "failed_jobs", delete_land_time_check_branch)
    /\ UNCHANGED <<pollFrame, sev, now, last_exception>>

\* 1637-1642, 1653-1656
PollPending ==
    /\ m_pc = "poll_eval"
    /\ NoFailedJobs /\ ~NoPendingJobs
    /\ Sleep(IF outcome.kind = "MandatoryChecksMissingError"
             THEN "rule_pending" ELSE "still_waiting", <<>>)
    /\ UNCHANGED <<pollFrame, sev>>

\* 1643-1644, 1657-1660: validate_land_time_checks finds failed land checks
PollLandChecksFailed ==
    /\ m_pc = "poll_eval"
    /\ NoPendingJobs /\ ValidatesLandChecks
    /\ validate_land_time_checks(unclassified(land_validation)) = "RuntimeError"
    /\ Raise("RuntimeError", "land_checks_failed", delete_land_time_check_branch)
    /\ UNCHANGED <<pollFrame, sev, now, last_exception>>

\* 1643-1644, 1653-1656: validate_land_time_checks finds land checks not yet run
PollLandChecksMissing ==
    /\ m_pc = "poll_eval"
    /\ NoPendingJobs /\ ValidatesLandChecks
    /\ validate_land_time_checks(unclassified(land_validation))
          = "MandatoryChecksMissingError"
    /\ Sleep("land_checks_not_run", <<>>)
    /\ UNCHANGED <<pollFrame, sev>>

\* 1643-1646, up to the call of merge_into
PollCallMergeInto ==
    /\ m_pc = "poll_eval"
    /\ NoPendingJobs
    /\ ValidatesLandChecks =>
          validate_land_time_checks(unclassified(land_validation)) = "ok"
    /\ m_pc' = "poll_call"
    /\ UNCHANGED <<pollFrame, sev, now, last_exception, m_outcome, log>>

-----------------------------------------------------------------------------
(* merge_into, called from merge(), and the handler of main *)

\* merge_into was called from the try block of the poll loop (1646)
FromPoll == m_pc \in {"poll_call", "poll_into", "poll_stack", "poll_stack_eval"}

\* 1029-1034
MergeIntoEvaluate ==
    /\ m_pc \in {"bypass_call", "poll_call"}
    /\ outcome' = find_matching_merge_rule(PRView(land_check_commit), rules,
                                           skip_mandatory_checks,
                                           can_skip_internal_checks(comment_id))
    /\ log' = Append(log, Effect("evaluate", "merge_into"))
    /\ m_pc' = IF FromPoll THEN "poll_into" ELSE "bypass_into"
    /\ UNCHANGED <<mergeFrame, sev, checks, head_oid, pr_closed, land_validation,
                   land_check_commit, now, elapsed_time, last_exception, m_outcome,
                   iterations>>

InMergeInto == m_pc \in {"bypass_into", "poll_into"}

\* an exception leaves merge_into: inside the try of 1615 when called from the
\* poll loop (1653-1660), straight out of merge() when called from 1573
Propagate(kind, message) ==
    IF FromPoll /\ kind = "MandatoryChecksMissingError"
    THEN Sleep("rule_pending", <<>>)
    ELSE /\ Raise(kind, message,
                  IF FromPoll /\ kind = "RuntimeError"
                  THEN delete_land_time_check_branch ELSE <<>>)
         /\ UNCHANGED <<now, last_exception>>

\* 1029-1034: find_matching_merge_rule raised RuntimeError (or ValueError)
MergeIntoRejected ==
    /\ InMergeInto
    /\ outcome.kind \notin {"return", "MandatoryChecksMissingError"}
    /\ Propagate(outcome.kind, "rejected")
    /\ UNCHANGED <<pollFrame, sev>>

\* 1029-1034: find_matching_merge_rule raised MandatoryChecksMissingError
MergeIntoChecksMissing ==
    /\ InMergeInto
    /\ outcome.kind = "MandatoryChecksMissingError"
    /\ Propagate("MandatoryChecksMissingError", "rejected")
    /\ UNCHANGED <<pollFrame, sev>>

\* 1035-1037: a git command of merge_changes or the push fails; the error is a
\* RuntimeError or another exception, depending on the git wrapper
MergeIntoGitFails ==
    /\ InMergeInto
    /\ outcome.kind = "return"
    /\ ~is_ghstack_pr
    /\ \E kind \in {"RuntimeError", "CalledProcessError"} : Propagate(kind, "git")
    /\ UNCHANGED <<pollFrame, sev>>

\* MergeIntoPushed whatever the evaluation of 1029 found
MergeIntoPushed_Unevaluated ==
    /\ InMergeInto
    /\ ~is_ghstack_pr
    /\ log' = log
              \o <<Effect("push", IF dry_run THEN "dry_run" ELSE "default_branch")>>
              \o (IF dry_run THEN <<>>
                  ELSE (IF land_check_commit /= None
                        THEN <<Effect("delete_branch", "landchecks")>> ELSE <<>>)
                       \o <<Effect("label", "merged")>>)
    /\ m_pc' = "returned"
    /\ m_outcome' = MergeOutcome("merged", "")
    /\ UNCHANGED <<pollFrame, sev, now, last_exception>>

\* 1035-1043: the changes are merged and pushed
MergeIntoPushed ==
    /\ InMergeInto
    /\ outcome.kind = "return"
    /\ ~is_ghstack_pr
    /\ log' = log
              \o <<Effect("push", IF dry_run THEN "dry_run" ELSE "default_branch")>>
              \o (IF dry_run THEN <<>>
                  ELSE (IF land_check_commit /= None
                        THEN <<Effect("delete_branch", "landchecks")>> ELSE <<>>)
                       \o <<Effect("label", "merged")>>)
    /\ m_pc' = "returned"
    /\ m_outcome' = MergeOutcome("merged", "")
    /\ UNCHANGED <<pollFrame, sev, now, last_exception>>

\* 1565-1566: get_ghstack_prs raises when merge() starts
GhstackOutOfSync ==
    /\ m_pc = "start"
    /\ ~StackInSyncAtStart
    /\ Raise("RuntimeError", get_ghstack_prs(stack).message, <<>>)
    /\ UNCHANGED <<mergeFrame, outcome, sev, checks, head_oid, pr_closed, land_validation,
                   land_check_commit, now, elapsed_time, last_exception, iterations>>

\* what a later call of get_ghstack_prs may find: the forge is asked again for
\* each PR below the target, the revisions and the target's snapshot are the same
SameRevisions(s, t) ==
    /\ Len(s) = Len(t)
    /\ \A k \in 1..Len(s) :
          /\ s[k].rev = t[k].rev /\ s[k].repo = t[k].repo /\ s[k].num = t[k].num
          /\ s[k].message = t[k].message
          /\ s[k].num = pr_num => s[k] = t[k]

\* the stacks of the model; the target is the newest revision
tree1 == <<"t", "1">>
tree2 == <<"t", "2">>
message_of(tree) == <<"g", "h", "-">> \o tree \o <<"\n">>
green == AsCheckRuns((pull_a :> <<"SUCCESS", None>>))
waiting == AsCheckRuns((pull_a :> <<None, None>>))
TargetRev(tree) ==
    StackRev("rev3", own_repo, pr_num, FALSE, tree, message_of(tree1), {}, <<>>)
LowerRevs ==
    {StackRev(r[1], repo, r[2], closed, tree, message_of(tree1), approved, chks) :
        r \in {<<"rev1", "10">>, <<"rev2", "11">>},
        repo \in {own_repo}, closed \in BOOLEAN, tree \in {tree1, tree2},
        approved \in {{alice}, {bob}}, chks \in {green}}
    \cup {StackRev("rev2", repo, "11", FALSE, tree1, message_of(tree1), {alice},
                   chks) :
             repo \in {None, "other/repo", own_repo}, chks \in {green, waiting}}
StackChoices ==
    {<<TargetRev(t)>> : t \in {tree1, tree2}}
    \cup {<<e, TargetRev(tree1)>> : e \in LowerRevs}
    \cup {<<e1, e2, TargetRev(tree1)>> :
             e1 \in {e \in LowerRevs : e.rev = "rev1" /\ e.approved_by = {alice}},
             e2 \in {e \in LowerRevs : e.rev = "rev2" /\ e.repo = own_repo
                                        /\ e.checks = green}}

InStackLoop == m_pc \in {"bypass_stack", "poll_stack"}
AfterStackEvaluate == m_pc \in {"bypass_stack_eval", "poll_stack_eval"}

stackFrame == <<mergeFrame, sev, checks, head_oid, pr_closed, land_validation, land_check_commit,
                elapsed_time, iterations>>

\* 985: get_ghstack_prs of merge_ghstack_into returns
MergeGhstackEnumerate ==
    /\ InMergeInto
    /\ outcome.kind = "return"
    /\ is_ghstack_pr
    /\ \E s \in StackChoices :
          /\ SameRevisions(s, stack)
          /\ get_ghstack_prs(s).kind = "return"
          /\ stack' = s
          /\ ghstack_prs' = get_ghstack_prs(s).prs
    /\ stack_idx' = 0
    /\ m_pc' = IF FromPoll THEN "poll_stack" ELSE "bypass_stack"
    /\ UNCHANGED <<catVars, changed_files, approved_by, diff_revision, argVars, pc,
                   rule_idx, reject_reason_score, reject_reason, tried, mergeArgs,
                   last_push_age, initial_commit_sha, sideVars, outcome, sev, checks, head_oid, pr_closed,
                   land_validation, land_check_commit, now, elapsed_time,
                   last_exception, m_outcome, log, iterations>>

\* 985: get_ghstack_prs of merge_ghstack_into raises
MergeGhstackEnumerateFails ==
    /\ InMergeInto
    /\ outcome.kind = "return"
    /\ is_ghstack_pr
    /\ \E s \in StackChoices :
          /\ SameRevisions(s, stack)
          /\ get_ghstack_prs(s).kind /= "return"
          /\ stack' = s
          /\ Propagate(get_ghstack_prs(s).kind, get_ghstack_prs(s).message)
    /\ UNCHANGED <<catVars, changed_files, approved_by, diff_revision, argVars, pc,
                   rule_idx, reject_reason_score, reject_reason, tried, mergeArgs,
                   last_push_age, initial_commit_sha, sideVars, outcome, sev, checks, head_oid, pr_closed,
                   land_validation, land_check_commit, elapsed_time, iterations,
                   ghstack_prs, stack_idx>>

\* the snapshot of a PR below the target that a rule evaluation reads
StackedPRView(e) ==
    [changed_files |-> changed_files, approved_by |-> e.approved_by,
     checks |-> get_combined_checks_from_pr_and_land_validation(
                    e.checks, land_validation, land_check_commit),
     pr_checks |-> e.checks, diff_revision |-> None]

\* 986-995: find_matching_merge_rule for the next PR, which is not the target
MergeGhstackEvaluate ==
    /\ InStackLoop
    /\ stack_idx < Len(ghstack_prs)
    /\ ghstack_prs[stack_idx + 1].num /= pr_num
    /\ outcome' = find_matching_merge_rule(StackedPRView(ghstack_prs[stack_idx + 1]),
                                           rules, skip_mandatory_checks,
                                           can_skip_internal_checks(comment_id))
    /\ log' = Append(log, Effect("evaluate_pr", ghstack_prs[stack_idx + 1].num))
    /\ m_pc' = IF FromPoll THEN "poll_stack_eval" ELSE "bypass_stack_eval"
    /\ UNCHANGED <<stackFrame, stackVars, now, last_exception, m_outcome>>

\* 990-995: the evaluation raises
MergeGhstackRejected ==
    /\ AfterStackEvaluate
    /\ outcome.kind /= "return"
    /\ Propagate(outcome.kind, "rejected")
    /\ UNCHANGED <<stackFrame, outcome>>

\* AtCherryPick whatever the evaluation of 990 found
AtCherryPick_Unchecked ==
    \/ AfterStackEvaluate
    \/ /\ InStackLoop /\ stack_idx < Len(ghstack_prs)
       /\ ghstack_prs[stack_idx + 1].num = pr_num

\* the loop of 986 is about to cherry-pick the revision of the next entry
AtCherryPick ==
    \/ AfterStackEvaluate /\ outcome.kind = "return"
    \/ /\ InStackLoop /\ stack_idx < Len(ghstack_prs)
       /\ ghstack_prs[stack_idx + 1].num = pr_num

\* the loop of 986 has ended and merge_into is about to push (1037)
AtPush == InStackLoop /\ stack_idx = Len(ghstack_prs)

\* 996-997: repo.cherry_pick(rev) and repo.amend_commit_message(commit_msg)
MergeGhstackCherryPick ==
    /\ AtCherryPick
    /\ log' = log \o <<Effect("cherry_pick", ghstack_prs[stack_idx + 1].rev),
                        Effect("amend", ghstack_prs[stack_idx + 1].num)>>
    /\ stack_idx' = stack_idx + 1
    /\ m_pc' = IF FromPoll THEN "poll_stack" ELSE "bypass_stack"
    /\ UNCHANGED <<catVars, changed_files, approved_by, diff_revision, argVars, pc,
                   rule_idx, reject_reason_score, reject_reason, tried, mergeArgs,
                   last_push_age, initial_commit_sha, sideVars, outcome, sev, checks, head_oid, pr_closed,
                   land_validation, land_check_commit, now, elapsed_time,
                   last_exception, m_outcome, iterations, stack, ghstack_prs>>

\* 996-997, 1037: a git command of the loop or the push fails
MergeGhstackGitFails ==
    /\ AtCherryPick \/ AtPush
    /\ \E kind \in {"RuntimeError", "CalledProcessError"} : Propagate(kind, "git")
    /\ UNCHANGED <<stackFrame, outcome>>

\* 1042-1043: add_numbered_label("merged") for each PR merge_changes returned
labels_of_additional_merged_prs(prs) ==
    [k \in 1..Len(prs) |-> Effect("label_merged_on", prs[k].num)]

\* MergeGhstackPushed without the loop of 1042-1043
MergeGhstackPushed_TargetOnly ==
    /\ AtPush
    /\ log' = log
              \o <<Effect("push", IF dry_run THEN "dry_run" ELSE "default_branch")>>
              \o (IF dry_run THEN <<>>
                  ELSE (IF land_check_commit /= None
                        THEN <<Effect("delete_branch", "landchecks")>> ELSE <<>>)
                       \o <<Effect("label", "merged")>>)
    /\ m_pc' = "returned"
    /\ m_outcome' = MergeOutcome("merged", "")
    /\ UNCHANGED <<stackFrame, outcome, now, last_exception>>

\* 997, 1037-1043: the stack is pushed
MergeGhstackPushed ==
    /\ AtPush
    /\ log' = log
              \o <<Effect("push", IF dry_run THEN "dry_run" ELSE "default_branch")>>
              \o (IF dry_run THEN <<>>
                  ELSE (IF land_check_commit /= None
                        THEN <<Effect("delete_branch", "landchecks")>> ELSE <<>>)
                       \o <<Effect("label", "merged")>>
                       \o labels_of_additional_merged_prs(ghstack_prs))
    /\ m_pc' = "returned"
    /\ m_outcome' = MergeOutcome("merged", "")
    /\ UNCHANGED <<stackFrame, outcome, now, last_exception>>

\* 1676-1698, 1724-1725
HandleException ==
    /\ m_pc = "raised"
    /\ log' = Append(log, gh_post_pr_comment("merge_failed"))
    /\ m_pc' = "handled"
    /\ UNCHANGED <<pollFrame, sev, now, last_exception, m_outcome>>

-----------------------------------------------------------------------------
(* The labels of a PR: get_labels and add_numbered_label *)

\* the label names of the model, in the order the forge lists them
LabelPool == <<"merged", "bug", "mergedX2", "reverted", "mergedX3">>

\* most calls of add_numbered_label on one PR
MaxLabelCalls == 2

\* 834-839: the cached list, or the names of self.info["labels"]
get_labels ==
    IF labels /= <<>> THEN labels[1]
    ELSE SelectSeq(LabelPool, LAMBDA n : n \in pr_labels)

\* 1017-1020: the loop, from iteration i on
RECURSIVE numbered_label(_, _, _, _)
numbered_label(lbls, label_base, label, i) ==
    IF i >= Len(lbls) THEN label
    ELSE numbered_label(lbls, label_base,
                        IF label \in Range(lbls)
                        THEN label_base \o "X" \o ToString(i + 2) ELSE label,
                        i + 1)

\* 1015-1021: one call of add_numbered_label(label_base) on the PR object
AddNumberedLabel ==
    /\ Len(label_calls) < MaxLabelCalls
    /\ \E label_base \in {"merged", "reverted"} :
          LET lbls == get_labels
              label == numbered_label(lbls, label_base, label_base, 0)
          IN  /\ labels' = Some(lbls)
              /\ pr_labels' = pr_labels \cup {label}
              /\ label_calls' = Append(label_calls,
                                       [base |-> label_base, seen |-> Range(lbls),
                                        carried |-> pr_labels, label |-> label])
    /\ UNCHANGED <<catVars, ruleVars, mergeCore, revertVars, reviewVars, evaluations,
                   extraVars>>

\* 709: another GitHubPR object is built for the PR (1610, 671)
NewGitHubPR ==
    /\ labels /= <<>>
    /\ Len(label_calls) < MaxLabelCalls
    /\ labels' = <<>>
    /\ UNCHANGED <<catVars, ruleVars, mergeCore, revertVars, reviewVars, evaluations,
                   extraVars, pr_labels, label_calls>>

LabelInit ==
    /\ pr_labels \in SUBSET Range(LabelPool)
    /\ labels = <<>> /\ label_calls = <<>>
    /\ CatIdle /\ RuleIdle /\ MergeCoreIdle /\ RevertIdle /\ ReviewIdle /\ EvaluationIdle
    /\ ExtraIdle

LabelNext == AddNumberedLabel \/ NewGitHubPR

SpecLabels == LabelInit /\ [][LabelNext]_vars

-----------------------------------------------------------------------------
(* The reviews of a PR: _get_reviews and get_approved_by *)

\* 772: range(100), the number of pages the loop takes up (2 stands for 100)
ReviewPageCap == 2
\* 199, 435: reviews(last: 100), the size of a page (2 stands for 100)
ReviewPageSize == 2
MaxReviews == 5

ReviewStates == {"APPROVED", "COMMENTED", "CHANGES_REQUESTED", "DISMISSED"}
\* 774: what the loop keeps of a node, (node["author"]["login"], node["state"])
ReviewNodes == [login : {alice, bob}, state : ReviewStates]

\* 199, 435: the forge serves the last reviews first, a page at a time, and
\* the reviews of a page oldest first
RECURSIVE Paginate(_)
Paginate(history) ==
    IF Len(history) <= ReviewPageSize THEN <<history>>
    ELSE <<SubSeq(history, Len(history) - ReviewPageSize + 1, Len(history))>>
         \o Paginate(SubSeq(history, 1, Len(history) - ReviewPageSize))

prepend_page_Appended(nodes, fetched) == fetched \o nodes

\* 774: self._reviews = [... for node in nodes] + self._reviews
prepend_page(nodes, fetched) == nodes \o fetched

\* 782-785: the dict reviews, as the list of its items in insertion order
RECURSIVE latest_states(_, _)
latest_states(fetched, reviews) ==
    IF fetched = <<>> THEN reviews
    ELSE LET r == Head(fetched)
             known == \E k \in 1..Len(reviews) : reviews[k].login = r.login
         IN  latest_states(Tail(fetched),
                 IF r.state = "COMMENTED" THEN reviews
                 ELSE IF known
                      THEN [k \in 1..Len(reviews) |->
                              IF reviews[k].login = r.login THEN r ELSE reviews[k]]
                      ELSE Append(reviews, r))

\* 786: list(reviews.items())
get_reviews(fetched) == latest_states(fetched, <<>>)

\* 789-790
get_approved_by(fetched) ==
    LET approved == SelectSeq(get_reviews(fetched), LAMBDA r : r.state = "APPROVED")
    IN  [k \in 1..Len(approved) |-> approved[k].login]

\* 769-781: one pass of the loop of _get_reviews, the first one included
FetchReviews ==
    /\ review_fetch.pc \in {"idle", "loop"}
    /\ review_pages /= <<>>
    /\ LET page == IF review_fetch.pc = "idle" THEN 1 ELSE review_fetch.page
           fetched == IF cached_reviews = <<>> THEN <<>> ELSE cached_reviews[1]
           hasPreviousPage == page < Len(review_pages)
       IN  /\ cached_reviews' = Some(prepend_page(review_pages[page], fetched))
           /\ review_fetch' = IF hasPreviousPage /\ page < ReviewPageCap
                              THEN [pc |-> "loop", page |-> page + 1]
                              ELSE [pc |-> "fetched", page |-> page]
    /\ UNCHANGED <<catVars, ruleVars, mergeCore, labelVars, revertVars, evaluations,
                   extraVars, review_pages, approved_returned>>

\* 789-790: get_approved_by returns
ReturnApprovedBy ==
    /\ review_fetch.pc = "fetched"
    /\ approved_returned = <<>>
    /\ approved_returned' = Some(get_approved_by(cached_reviews[1]))
    /\ UNCHANGED <<catVars, ruleVars, mergeCore, labelVars, revertVars, evaluations,
                   extraVars, review_pages, cached_reviews, review_fetch>>

ReviewHistories == UNION {[1..n -> ReviewNodes] : n \in 0..MaxReviews}

ReviewInit ==
    /\ review_pages \in {Paginate(history) : history \in ReviewHistories}
    /\ cached_reviews = <<>>
    /\ review_fetch = [pc |-> "idle", page |-> 0]
    /\ approved_returned = <<>>
    /\ CatIdle /\ RuleIdle /\ MergeCoreIdle /\ LabelIdle /\ RevertIdle /\ EvaluationIdle
    /\ ExtraIdle

ReviewNext == FetchReviews \/ ReturnApprovedBy

SpecReviews == ReviewInit /\ [][ReviewNext]_vars

-----------------------------------------------------------------------------
(* Runs of find_matching_merge_rule in processes of their own *)

MaxEvaluations == 2

\* The interpreter draws the hashes of its strings when it starts, and a set of
\* logins is iterated in the order of their hashes: an order of the logins
\* stands for the hashes of one process.
HashOrders ==
    {order \in [1..3 -> {alice, bob, carol}] : Range(order) = {alice, bob, carol}}

\* 1226: list(rule_approvers_set)[:5], iterated in a process of hash order `order`
ListedApprovers == 5
listed_approvers(rule, order) ==
    LET names == SelectSeq(order, LAMBDA login : login \in rule_approvers_set(rule))
    IN  SubSeq(names, 1,
               IF Len(names) < ListedApprovers THEN Len(names) ELSE ListedApprovers)

\* 1166, 1170, 1198-1202, 1209, 1224-1227, 1241-1246, 1251-1256, 1260: the
\* rejection text of an outcome; the text of 1224-1227 lists approvers
rejection_text(o, rls, order) ==
    [message |-> o.message,
     names |-> IF o.message.kind = "approvers"
               THEN listed_approvers(CHOOSE r \in Range(rls) : r.name = o.message.rule,
                                     order)
               ELSE <<>>]

\* 1149-1266: one run of the program evaluates the rules of the PR
EvaluateInProcess ==
    /\ Len(evaluations) < MaxEvaluations
    /\ LET o == find_matching_merge_rule(PRView(None), rules, skip_mandatory_checks,
                                         skip_internal_checks)
       IN  \E order \in HashOrders :
              evaluations' = Append(evaluations,
                                    [kind |-> o.kind, rule |-> o.rule,
                                     text |-> rejection_text(o, rules, order)])
    /\ UNCHANGED <<catVars, ruleVars, mergeCore, labelVars, revertVars, reviewVars,
                   extraVars>>

\* checks of a PR: EasyCLA passed or pending, pull passed or failed, and the
\* internal check failed or not reported
EvaluationChecks ==
    {AsCheckRuns(e @@ p @@ i) :
        e \in {(cla_EasyCLA :> <<"SUCCESS", None>>), (cla_EasyCLA :> <<None, None>>)},
        p \in {(pull_a :> <<"SUCCESS", None>>), (pull_a :> <<"FAILURE", None>>)},
        i \in {<<>>, (MetaCheck :> <<"FAILURE", None>>)}}

\* the PR, the rule file and the flags the runs share
EvaluationInit ==
    /\ changed_files = <<file_ax, file_ay, file_bz>>
    /\ approved_by \in ApprovedByChoices
    /\ checks \in EvaluationChecks
    /\ diff_revision = IF MetaCheck \in DOMAIN checks THEN "D1" ELSE None
    /\ rules \in RuleFiles
    /\ skip_mandatory_checks \in BOOLEAN
    /\ skip_internal_checks = FALSE
    /\ pc = "idle" /\ rule_idx = 0
    /\ reject_reason_score = 0 /\ reject_reason = NoRuleFound
    /\ outcome = Outcome("none", <<>>, NoRuleFound) /\ tried = <<>>
    /\ CatIdle /\ MergeIdle

EvaluationNext == EvaluateInProcess

SpecEvaluations == EvaluationInit /\ [][EvaluationNext]_vars

-----------------------------------------------------------------------------
(* add_workflow_conclusions *)

\* the check suites and check runs of the input, taken together, at most
MaxSuiteNodes == 4

\* 541-545
get_check_run_name_prefix(workflow_run) ==
    IF workflow_run = None THEN "" ELSE workflow_run \o " / "

\* 50-55
WorkflowCheckState(name, url, status) ==
    [name |-> name, url |-> url, status |-> status, jobs |-> <<>>]

\* a check run node: its name and its conclusion
CheckRunNodes == [name : {"x", "A / x"}, conclusion : {"SUCCESS", "FAILURE", None}]

\* a check suite node with n check runs; workflowRun is None or the name of
\* workflowRun.workflow
SuiteNodes(n) ==
    [workflowRun : {None, "A"}, conclusion : {"SUCCESS", "CANCELLED"},
     checkRuns : [1..n -> CheckRunNodes]]

\* the lists of check suites of at most n nodes
RECURSIVE SuiteLists(_)
SuiteLists(n) ==
    {<<>>} \cup UNION {{<<suite>> \o rest : rest \in SuiteLists(n - 1 - k)} :
                          <<k, suite>> \in UNION {{<<j, sn>> : sn \in SuiteNodes(j)} :
                                                     j \in 0..(n - 1)}}

\* `workflow_name in workflows` (572, 574): the place of the name, 0 if none
workflow_index(wfs, name) ==
    IF \E k \in 1..Len(wfs) : wfs[k].name = name
    THEN CHOOSE k \in 1..Len(wfs) : wfs[k].name = name
    ELSE 0

skips_suite_AnyCancelled(wfs, node) ==
    node.workflowRun /= None /\ node.conclusion = "CANCELLED"

\* 568-573: the suite is left out
skips_suite(wfs, node) ==
    /\ node.workflowRun /= None
    /\ node.conclusion = "CANCELLED"
    /\ workflow_index(wfs, node.workflowRun) /= 0

keeps_existing_Never(existing) == FALSE

\* 592: the check run of the node does not replace the existing one
keeps_existing(existing) ==
    ~(existing = <<>> \/ ~is_passing_status(existing[1].status))

AtEdge == suite_pos.edge \in 1..Len(checksuites) /\ suite_pos.run = 0
AtCheckRun == suite_pos.edge \in 1..Len(checksuites) /\ suite_pos.run > 0
node_at_edge == checksuites[suite_pos.edge]

\* 572-573: continue
SkipCancelledSuite ==
    /\ AtEdge
    /\ skips_suite(workflows, node_at_edge)
    /\ suite_pos' = [edge |-> suite_pos.edge + 1, run |-> 0]
    /\ UNCHANGED <<catVars, ruleVars, mergeCore, labelVars, revertVars, reviewVars,
                   evaluations, classVars, checksuites, workflows, no_workflow_obj, processed,
                   conclusions>>

\* 563-585: the suite is taken up, its workflow is entered in workflows
EnterSuite ==
    /\ AtEdge
    /\ ~skips_suite(workflows, node_at_edge)
    /\ workflows' =
          IF node_at_edge.workflowRun /= None
             /\ workflow_index(workflows, node_at_edge.workflowRun) = 0
          THEN Append(workflows, WorkflowCheckState(node_at_edge.workflowRun, "url",
                                                    node_at_edge.conclusion))
          ELSE workflows
    /\ suite_pos' = IF Len(node_at_edge.checkRuns) = 0
                    THEN [edge |-> suite_pos.edge + 1, run |-> 0]
                    ELSE [edge |-> suite_pos.edge, run |-> 1]
    /\ UNCHANGED <<catVars, ruleVars, mergeCore, labelVars, revertVars, reviewVars,
                   evaluations, classVars, checksuites, no_workflow_obj, processed, conclusions>>

\* workflow_obj.jobs of the suite the loop is in
jobs_of_suite ==
    IF node_at_edge.workflowRun = None THEN no_workflow_obj
    ELSE workflows[workflow_index(workflows, node_at_edge.workflowRun)].jobs

\* 586-603: one check run node of the suite
AddCheckRun(replaces) ==
    /\ AtCheckRun
    /\ LET checkrun_node == node_at_edge.checkRuns[suite_pos.run]
           checkrun_name == get_check_run_name_prefix(node_at_edge.workflowRun)
                            \o checkrun_node.name
           existing_checkrun == IF checkrun_name \in DOMAIN jobs_of_suite
                                THEN Some(jobs_of_suite[checkrun_name]) ELSE <<>>
           jobs == (checkrun_name :> JobCheckState(checkrun_name, "url",
                                                   checkrun_node.conclusion, None))
                   @@ jobs_of_suite
       IN  /\ replaces = ~keeps_existing(existing_checkrun)
           /\ IF ~replaces
              THEN UNCHANGED <<workflows, no_workflow_obj>>
              ELSE IF node_at_edge.workflowRun = None
              THEN no_workflow_obj' = jobs /\ UNCHANGED workflows
              ELSE /\ workflows' =
                        [workflows EXCEPT
                            ![workflow_index(workflows, node_at_edge.workflowRun)].jobs
                                = jobs]
                   /\ UNCHANGED no_workflow_obj
           /\ processed' = Append(processed,
                                  [name |-> checkrun_name,
                                   workflow |-> node_at_edge.workflowRun,
                                   status |-> checkrun_node.conclusion,
                                   existing |-> existing_checkrun,
                                   edge |-> suite_pos.edge])
    /\ suite_pos' = IF suite_pos.run < Len(node_at_edge.checkRuns)
                    THEN [edge |-> suite_pos.edge, run |-> suite_pos.run + 1]
                    ELSE [edge |-> suite_pos.edge + 1, run |-> 0]
    /\ UNCHANGED <<catVars, ruleVars, mergeCore, labelVars, revertVars, reviewVars,
                   evaluations, classVars, checksuites, conclusions>>

\* 593-597
RecordCheckRun == AddCheckRun(TRUE)

\* 592: the existing check run is passing
KeepPassingCheckRun == AddCheckRun(FALSE)

\* 612-622: the loop over workflows.items()
RECURSIVE flatten_workflows(_, _)
flatten_workflows(wfs, res) ==
    IF wfs = <<>> THEN res
    ELSE LET workflow == Head(wfs)
         IN  flatten_workflows(
                 Tail(wfs),
                 IF DOMAIN workflow.jobs /= {}
                 THEN workflow.jobs @@ res
                 ELSE (workflow.name :> JobCheckState(workflow.name, workflow.url,
                                                      workflow.status, None)) @@ res)

\* 606-629: the dictionaries are flattened and returned
FlattenConclusions ==
    /\ checksuites /= <<>>
    /\ suite_pos.edge > Len(checksuites)
    /\ conclusions = <<>>
    /\ conclusions' = Some(no_workflow_obj @@ flatten_workflows(workflows, <<>>))
    /\ UNCHANGED <<catVars, ruleVars, mergeCore, labelVars, revertVars, reviewVars,
                   evaluations, classVars, checksuites, workflows, no_workflow_obj, suite_pos,
                   processed>>

\* 558-561: add_workflow_conclusions is called with the check suites
WorkflowInit ==
    /\ checksuites \in SuiteLists(MaxSuiteNodes) \ {<<>>}
    /\ workflows = <<>> /\ no_workflow_obj = <<>>
    /\ suite_pos = [edge |-> 1, run |-> 0]
    /\ processed = <<>> /\ conclusions = <<>>
    /\ CatIdle /\ RuleIdle /\ MergeCoreIdle /\ LabelIdle /\ RevertIdle /\ ReviewIdle
    /\ EvaluationIdle /\ ClassIdle

WorkflowNext ==
    \/ SkipCancelledSuite
    \/ EnterSuite
    \/ RecordCheckRun
    \/ KeepPassingCheckRun
    \/ FlattenConclusions

SpecWorkflows == WorkflowInit /\ [][WorkflowNext]_vars

-----------------------------------------------------------------------------
(* get_classifications *)

\* the ids of the jobs of a key, and the rows of one answer, at most
MaxJobId == 3

\* 1319-1336: a row of the answer of the query; at_head tells whether its
\* head_sha is the head commit of the PR (1359); failure_captures is the empty
\* tuple for None, or Some(list)
RocksetRow(id, at_head, conclusion, failure_captures, steps) ==
    [workflow_name |-> pull, name |-> <<"a">>, id |-> id, at_head |-> at_head,
     conclusion |-> conclusion, failure_captures |-> failure_captures,
     steps |-> steps]

\* 62-68
FlakyRule_matches(rule, job) ==
    /\ job /= <<>>
    /\ Contains(rule.name, job[1].name)
    /\ job[1].failure_captures /= <<>>
    /\ \A k \in 1..Len(rule.captures) :
          rule.captures[k] \in Range(job[1].failure_captures[1])

insert_AnyId(d, key, val) ==
    IF key \notin DOMAIN d THEN (key :> val) @@ d
    ELSE IF d[key].conclusion = "success" THEN d
    ELSE (key :> val) @@ d

\* 1349-1355
insert(d, key, val) ==
    IF key \notin DOMAIN d THEN (key :> val) @@ d
    ELSE IF d[key].conclusion = "success" THEN d
    ELSE IF d[key].id < val.id THEN (key :> val) @@ d
    ELSE d

\* 1358
key_of(rockset_result) ==
    rockset_result.workflow_name \o <<" ", "/", " ">> \o rockset_result.name

classify_FlakyFirst(check, head_job, base_job, flaky) ==
    IF check.status = "SUCCESS" THEN check.classification
    ELSE IF head_job /= <<>> /\ head_job[1].steps <= 1 THEN "FLAKY"
    ELSE IF /\ head_job /= <<>> /\ base_job /= <<>>
            /\ head_job[1].conclusion = base_job[1].conclusion
            /\ head_job[1].failure_captures = base_job[1].failure_captures
    THEN "BROKEN_TRUNK"
    ELSE IF \E k \in 1..Len(flaky) : FlakyRule_matches(flaky[k], head_job)
    THEN "FLAKY"
    ELSE check.classification

\* 1365-1380: the classification the object of the check holds after the
\* iteration of the loop
classify(check, head_job, base_job, flaky) ==
    IF check.status = "SUCCESS" THEN check.classification
    ELSE IF /\ head_job /= <<>> /\ base_job /= <<>>
            /\ head_job[1].conclusion = base_job[1].conclusion
            /\ head_job[1].failure_captures = base_job[1].failure_captures
    THEN "BROKEN_TRUNK"
    ELSE IF head_job /= <<>> /\ head_job[1].steps <= 1 THEN "FLAKY"
    ELSE IF \E k \in 1..Len(flaky) : FlakyRule_matches(flaky[k], head_job)
    THEN "FLAKY"
    ELSE check.classification

\* d.get(name)
dict_get(d, name) == IF name \in DOMAIN d THEN Some(d[name]) ELSE <<>>

classFrame == <<catVars, ruleVars, mergeCore, labelVars, revertVars, reviewVars,
                evaluations, workflowVars>>

\* 1357-1362: one row of the answer
InsertRow ==
    /\ class_pos.pc = "insert"
    /\ class_pos.row <= Len(rockset_results)
    /\ LET rockset_result == rockset_results[class_pos.row]
           name == key_of(rockset_result)
       IN  IF rockset_result.at_head
           THEN /\ head_sha_jobs' = insert(head_sha_jobs, name, rockset_result)
                /\ UNCHANGED merge_base_jobs
           ELSE /\ merge_base_jobs' = insert(merge_base_jobs, name, rockset_result)
                /\ UNCHANGED head_sha_jobs
    /\ class_pos' = [class_pos EXCEPT !.row = @ + 1]
    /\ UNCHANGED <<classFrame, pr_conclusions, rockset_results, flaky_rules>>

\* 1364-1383: the loop over the checks, which are the objects of the snapshot
Classify ==
    /\ class_pos.pc = "insert"
    /\ class_pos.row > Len(rockset_results)
    /\ pr_conclusions' =
          [name \in DOMAIN pr_conclusions |->
              [pr_conclusions[name] EXCEPT
                  !.classification = classify(pr_conclusions[name],
                                              dict_get(head_sha_jobs, name),
                                              dict_get(merge_base_jobs, name),
                                              flaky_rules)]]
    /\ class_pos' = [class_pos EXCEPT !.pc = "returned"]
    /\ UNCHANGED <<classFrame, rockset_results, flaky_rules, head_sha_jobs,
                   merge_base_jobs>>

\* the rows of jobs of distinct ids in any order, for the dicts of 1346-1347
HistoryRows ==
    {rows \in UNION {[1..n -> {RocksetRow(id, at_head, conclusion, <<>>, 2) :
                                  id \in 1..MaxJobId, at_head \in BOOLEAN,
                                  conclusion \in {"success", "failure"}}] :
                        n \in 0..MaxJobId} :
        \A i, j \in 1..Len(rows) : rows[i].id = rows[j].id => i = j}

\* at most one job of the head commit and one of the merge base
JobsOfCommit(id, at_head) ==
    {<<>>} \cup {<<RocksetRow(id, at_head, conclusion, failure_captures, steps)>> :
                    conclusion \in {"failure", "cancelled"},
                    failure_captures \in {<<>>, Some(<<"c">>)}, steps \in {1, 2}}
JobRows == {h \o b : h \in JobsOfCommit(1, TRUE), b \in JobsOfCommit(2, FALSE)}

FlakyRuleChoices == {<<>>, <<[name |-> <<"a">>, captures |-> <<"c">>]>>}

\* 1410, called again on the same snapshot of the PR (1616, 1625, 1646): the
\* rows and the flaky rules are fetched anew (1344-1345)
CallGetClassifications ==
    /\ class_pos.pc = "returned"
    /\ rockset_results' \in JobRows
    /\ flaky_rules' \in FlakyRuleChoices
    /\ head_sha_jobs' = <<>> /\ merge_base_jobs' = <<>>
    /\ class_pos' = [pc |-> "insert", row |-> 1]
    /\ UNCHANGED <<classFrame, pr_conclusions>>

\* 1410: the first call on a snapshot of the PR, whose checks are unclassified
ClassInit ==
    /\ \/ /\ rockset_results \in HistoryRows
          /\ flaky_rules = <<>>
          /\ pr_conclusions = (pull_a :> JobCheckState(pull_a, "url", "FAILURE", None))
       \/ /\ rockset_results \in JobRows
          /\ flaky_rules \in FlakyRuleChoices
          /\ \E status \in {"SUCCESS", "FAILURE", None} :
                pr_conclusions = (pull_a :> JobCheckState(pull_a, "url", status, None))
                                 @@ (Lint_x :> JobCheckState(Lint_x, "url", "FAILURE", None))
    /\ head_sha_jobs = <<>> /\ merge_base_jobs = <<>>
    /\ class_pos = [pc |-> "insert", row |-> 1]
    /\ CatIdle /\ RuleIdle /\ MergeCoreIdle /\ LabelIdle /\ RevertIdle /\ ReviewIdle
    /\ EvaluationIdle /\ WorkflowIdle

ClassNext == InsertRow \/ Classify \/ CallGetClassifications

SpecClassifications == ClassInit /\ [][ClassNext]_vars

-----------------------------------------------------------------------------
(* validate_revert, try_revert and the revert branch of main *)

\* 1422: the comment that carries the revert command
revert_comment ==
    LET c == IF comment_id = <<>> THEN get_comment_by_id(revert_info.last_comment)
             ELSE get_comment_by_id(comment_id[1])
    IN  [author_login |-> c.author_login, editor_login |-> c.editor_login,
         author_association |-> revert_info.author_association]

\* allowed_reverters with CONTRIBUTOR in every repository
allowed_reverters_AnyRepo(private) ==
    <<"COLLABORATOR", "MEMBER", "OWNER", "CONTRIBUTOR">>

\* 1427-1430
allowed_reverters(private) ==
    <<"COLLABORATOR", "MEMBER", "OWNER">>
    \o (IF private THEN <<"CONTRIBUTOR">> ELSE <<>>)

\* 1422-1435: the text of the PostCommentError, or None
comment_refusal ==
    IF revert_comment.editor_login /= None THEN "refused_edited_command"
    ELSE IF revert_comment.author_association
               \notin Range(allowed_reverters(revert_info.private))
    THEN "refused_association"
    ELSE None

\* 1440-1445: the commit to revert, None when there is none
commit_sha ==
    IF revert_info.merge_commit /= None THEN revert_info.merge_commit
    ELSE IF Len(revert_repo.commits) = 0 THEN None
    ELSE revert_repo.commits[1]

\* 1440-1452: the text of the PostCommentError, or None
commit_refusal ==
    IF commit_sha = None THEN "refused_no_commit"
    ELSE IF revert_repo.landed_as /= None /\ ~can_skip_internal_checks(comment_id)
    THEN "refused_phabricator"
    ELSE None

\* 1460-1461: the PostCommentError is posted and try_revert returns
Refuse(text, effects) ==
    /\ log' = log \o effects \o <<gh_post_pr_comment(text)>>
    /\ m_pc' = "returned"
    /\ m_outcome' = MergeOutcome("refused", text)

\* 1701, 1422-1435, 1460-1461: the command is refused for its comment
RevertCommentRefused ==
    /\ m_pc = "revert_start"
    /\ comment_refusal /= None
    /\ Refuse(comment_refusal, <<gh_post_pr_comment("revert_message")>>)
    /\ UNCHANGED <<stackFrame, outcome, now, last_exception>>

\* 1701, 1422-1439: find_matching_merge_rule(pr, repo, skip_mandatory_checks=True,
\* skip_internal_checks=skip_internal_checks)
RevertEvaluateRule ==
    /\ m_pc = "revert_start"
    /\ comment_refusal = None
    /\ outcome' = find_matching_merge_rule(PRView(None), rules, TRUE,
                                           can_skip_internal_checks(comment_id))
    /\ log' = log \o <<gh_post_pr_comment("revert_message"),
                        Effect("evaluate", "revert")>>
    /\ m_pc' = "revert_rule"
    /\ UNCHANGED <<stackFrame, now, last_exception, m_outcome>>

\* 1439, 1703-1704: the evaluation raises
RevertRuleRejected ==
    /\ m_pc = "revert_rule"
    /\ outcome.kind /= "return"
    /\ Raise(outcome.kind, "rejected", <<>>)
    /\ UNCHANGED <<stackFrame, outcome, now, last_exception>>

\* 1440-1452, 1460-1461: the command is refused for the commit
RevertCommitRefused ==
    /\ m_pc = "revert_rule"
    /\ outcome.kind = "return"
    /\ commit_refusal /= None
    /\ Refuse(commit_refusal, <<>>)
    /\ UNCHANGED <<stackFrame, outcome, now, last_exception>>

\* 1464-1469: the git commands of try_revert, in the order of the code
revert_git ==
    <<Effect("checkout", "default_branch"), Effect("revert", commit_sha),
      Effect("amend", "revert_msg"),
      Effect("push", IF dry_run THEN "dry_run" ELSE "default_branch")>>

\* 1464-1469, 1703-1704: a git command fails after those before it were run
RevertGitFails ==
    /\ m_pc = "revert_rule"
    /\ outcome.kind = "return"
    /\ commit_refusal = None
    /\ \E done \in 0..(Len(revert_git) - 1) :
          \E kind \in {"RuntimeError", "CalledProcessError"} :
              Raise(kind, "git", SubSeq(revert_git, 1, done))
    /\ UNCHANGED <<stackFrame, outcome, now, last_exception>>

\* RevertPushed that labels and comments the commit in a dry run too
RevertPushed_DryRunIgnored ==
    /\ m_pc = "revert_rule"
    /\ outcome.kind = "return"
    /\ commit_refusal = None
    /\ log' = log \o revert_git
                  \o <<gh_post_pr_comment("reverted"), Effect("label", "reverted"),
                       Effect("commit_comment", commit_sha)>>
    /\ m_pc' = "returned"
    /\ m_outcome' = MergeOutcome("reverted", "")
    /\ UNCHANGED <<stackFrame, outcome, now, last_exception>>

\* 1462-1478: the revert is made and pushed
RevertPushed ==
    /\ m_pc = "revert_rule"
    /\ outcome.kind = "return"
    /\ commit_refusal = None
    /\ log' = log \o revert_git
                  \o <<gh_post_pr_comment("reverted")>>
                  \o (IF dry_run THEN <<>>
                      ELSE <<Effect("label", "reverted"),
                             Effect("commit_comment", commit_sha)>>)
    /\ m_pc' = "returned"
    /\ m_outcome' = MergeOutcome("reverted", "")
    /\ UNCHANGED <<stackFrame, outcome, now, last_exception>>

-----------------------------------------------------------------------------
(* Runs of merge() *)

\* longest timeout, in units of 300 s
MaxTimeout == 2

\* the rule file of the repository of the merge runs
MergeRuleFiles ==
    {<<MergeRule("r1", << <<"*">> >>, <<alice>>, Some(<<pull>>))>>}

\* the command line of a merge and what the forge answers about the PR
MergeInputs ==
    /\ dry_run \in BOOLEAN
    /\ skip_mandatory_checks \in BOOLEAN
    /\ comment_id \in {<<>>, Some(1), Some(2), Some(3)}
    /\ land_checks \in BOOLEAN
    /\ timeout \in 0..MaxTimeout
    /\ last_push_age \in {6, 7, 8}
    /\ changed_files = <<file_ax>>
    /\ approved_by \in {{alice}, {bob}}
    /\ checks \in MergeCheckChoices
    /\ diff_revision = None
    /\ rules \in MergeRuleFiles
    /\ skip_internal_checks = FALSE
    /\ head_oid = "oid1" /\ initial_commit_sha = "oid1"
    /\ sev = <<>> /\ land_validation = <<>> /\ land_check_commit = None
    /\ now = 0 /\ elapsed_time = 0 /\ last_exception = ""
    /\ m_outcome = MergeOutcome("none", "") /\ log = <<>> /\ iterations = <<>>
    /\ stack = <<>> /\ ghstack_prs = <<>> /\ stack_idx = 0
    /\ pc = "idle" /\ rule_idx = 0
    /\ reject_reason_score = 0 /\ reject_reason = NoRuleFound
    /\ outcome = Outcome("none", <<>>, NoRuleFound) /\ tried = <<>>
    /\ CatIdle
    /\ SideIdle

\* the state when main calls merge() (1717) and the PR has been read (1557-1558)
MergeInit == MergeInputs /\ m_pc = "start" /\ pr_closed = FALSE

MergeNext ==
    \/ SevBlocksAtStart
    \/ BypassToMergeInto
    \/ ApprovalGate
    \/ GateRejected
    \/ StalePR
    \/ EnterPoll
    \/ PollTimeout
    \/ PollSevBlocks
    \/ PollNewCommits
    \/ PollSnapshot
    \/ PollEvaluateRule
    \/ PollRuleRejected
    \/ PollStartupFailures
    \/ PollFailedJobs
    \/ PollPending
    \/ PollLandChecksFailed
    \/ PollLandChecksMissing
    \/ PollCallMergeInto
    \/ MergeIntoEvaluate
    \/ MergeIntoRejected
    \/ MergeIntoChecksMissing
    \/ MergeIntoGitFails
    \/ MergeIntoPushed
    \/ HandleException

SpecMerge == MergeInit /\ [][MergeNext]_vars

\* merge() is called for a ghstack PR with skip_mandatory_checks or from an
\* unedited comment of the bot (the branch of 1570-1578)
StackInit ==
    /\ dry_run \in BOOLEAN
    /\ skip_mandatory_checks \in BOOLEAN
    /\ comment_id = Some(1)
    /\ land_checks \in BOOLEAN
    /\ timeout = MaxTimeout
    /\ last_push_age = 6
    /\ changed_files = <<file_ax>>
    /\ approved_by \in {{alice}, {bob}}
    /\ checks \in {green, waiting}
    /\ diff_revision = None
    /\ rules \in MergeRuleFiles
    /\ skip_internal_checks = FALSE
    /\ head_oid = "oid1" /\ initial_commit_sha = "oid1"
    /\ pr_closed = FALSE
    /\ sev = <<>> /\ land_validation = <<>> /\ land_check_commit = None
    /\ m_pc = "start"
    /\ now = 0 /\ elapsed_time = 0 /\ last_exception = ""
    /\ m_outcome = MergeOutcome("none", "") /\ log = <<>> /\ iterations = <<>>
    /\ stack \in StackChoices /\ ghstack_prs = <<>> /\ stack_idx = 0
    /\ pc = "idle" /\ rule_idx = 0
    /\ reject_reason_score = 0 /\ reject_reason = NoRuleFound
    /\ outcome = Outcome("none", <<>>, NoRuleFound) /\ tried = <<>>
    /\ CatIdle
    /\ SideIdle

StackNext ==
    \/ GhstackOutOfSync
    \/ SevBlocksAtStart
    \/ BypassToMergeInto
    \/ MergeIntoEvaluate
    \/ MergeIntoRejected
    \/ MergeIntoChecksMissing
    \/ MergeGhstackEnumerate
    \/ MergeGhstackEnumerateFails
    \/ MergeGhstackEvaluate
    \/ MergeGhstackRejected
    \/ MergeGhstackCherryPick
    \/ MergeGhstackGitFails
    \/ MergeGhstackPushed
    \/ HandleException

SpecStack == StackInit /\ [][StackNext]_vars

\* the runs of merge() for either kind of PR
SpecMergeAny == (MergeInit \/ StackInit) /\ [][MergeNext \/ StackNext]_vars

\* the authorAssociation values of the model
Associations ==
    {"COLLABORATOR", "MEMBER", "OWNER", "CONTRIBUTOR", "FIRST_TIME_CONTRIBUTOR",
     "NONE"}

\* the state when main takes the branch of args.revert (1699)
RevertInit ==
    /\ dry_run \in BOOLEAN
    /\ comment_id \in {<<>>, Some(1), Some(2), Some(3)}
    /\ revert_info \in [last_comment : {2, 3}, author_association : Associations,
                         private : BOOLEAN, merge_commit : {None, "sha1"}]
    /\ revert_repo \in [commits : {<<>>, <<"sha2", "sha3">>},
                         landed_as : {None, "D1"}]
    /\ skip_mandatory_checks = FALSE /\ land_checks = FALSE /\ timeout = 0
    /\ last_push_age = 0
    /\ changed_files = <<file_ax>>
    /\ approved_by \in {{alice}, {bob}}
    /\ checks = AsCheckRuns((pull_a :> <<None, None>>))
    /\ diff_revision = None
    /\ rules \in MergeRuleFiles
    /\ skip_internal_checks = FALSE
    /\ head_oid = "oid1" /\ initial_commit_sha = None
    /\ pr_closed = TRUE
    /\ sev = <<>> /\ land_validation = <<>> /\ land_check_commit = None
    /\ m_pc = "revert_start"
    /\ now = 0 /\ elapsed_time = 0 /\ last_exception = ""
    /\ m_outcome = MergeOutcome("none", "") /\ log = <<>> /\ iterations = <<>>
    /\ stack = <<>> /\ ghstack_prs = <<>> /\ stack_idx = 0
    /\ pc = "idle" /\ rule_idx = 0
    /\ reject_reason_score = 0 /\ reject_reason = NoRuleFound
    /\ outcome = Outcome("none", <<>>, NoRuleFound) /\ tried = <<>>
    /\ CatIdle /\ LabelIdle /\ ReviewIdle /\ EvaluationIdle /\ ExtraIdle

RevertNext ==
    \/ RevertCommentRefused
    \/ RevertEvaluateRule
    \/ RevertRuleRejected
    \/ RevertCommitRefused
    \/ RevertGitFails
    \/ RevertPushed
    \/ HandleException

SpecRevert == RevertInit /\ [][RevertNext]_vars

\* 1699-1725: main runs try_revert or merge()
MainInit == MergeInit \/ StackInit \/ RevertInit

MainNext == MergeNext \/ StackNext \/ RevertNext

SpecMain == MainInit /\ [][MainNext]_vars

\* main has parsed its arguments and read the PR (1671-1674); no --revert
GateInit == MergeInputs /\ m_pc = "main" /\ pr_closed \in BOOLEAN

\* 1708-1710: main refuses a closed PR
MainRefusesClosedPR ==
    /\ m_pc = "main"
    /\ pr_closed
    /\ log' = Append(log, gh_post_pr_comment("cant_merge_closed"))
    /\ m_pc' = "refused"
    /\ UNCHANGED <<pollFrame, sev, now, last_exception, m_outcome>>

\* 1708, 1712, 1716-1723: the PR is open and no ghstack PR of another
\* repository, main calls merge(), which reads the PR anew (1557)
MainCallsMerge ==
    /\ m_pc = "main"
    /\ ~pr_closed
    /\ ~is_ghstack_pr
    /\ pr_closed' \in BOOLEAN
    /\ m_pc' = "start"
    /\ UNCHANGED <<mergeFrame, outcome, sev, checks, head_oid, land_validation,
                   land_check_commit, now, elapsed_time, last_exception, m_outcome,
                   log, iterations>>

GateNext == MainRefusesClosedPR \/ MainCallsMerge \/ MergeNext

\* main with a merge command, from the test of pr.is_closed() on
SpecGate == GateInit /\ [][GateNext]_vars

\* the single thread of the program never stops while it has a step to take
SpecMergeFair == SpecMerge /\ WF_vars(MergeNext)

-----------------------------------------------------------------------------
(* Vocabulary of the properties *)

Terminal == pc \in {"returned", "raised"}

\* the gate at which the code leaves rule k of the file
GateOf(k) ==
    check_rule(rules[k], changed_files, approved_by, checks, skip_mandatory_checks).gate

ScoredGates == {"files", "not_reviewed", "approvers", "failed", "pending"}
PastApproval == {"failed", "pending", "pass", "internal"}

\* the scan ran out of rules (1264-1266)
Exhausted ==
    /\ pc = "raised" /\ rules /= <<>>
    /\ outcome.kind \in {"RuntimeError", "MandatoryChecksMissingError"}
    /\ outcome.message /= InternalChanges

\* the PR carries internal changes, stated from the PR's data
InternalChangesPresent ==
    /\ diff_revision /= None
    /\ \E n \in DOMAIN checks : n = MetaCheck /\ checks[n].status /= "SUCCESS"

SetMax(S) == CHOOSE x \in S : \A y \in S : y <= x

EntryNames(list) == {list[k][1] : k \in 1..Len(list)}
NoDuplicates(list) == \A i, j \in 1..Len(list) : list[i] = list[j] => i = j

-----------------------------------------------------------------------------
(* Properties of find_matching_merge_rule *)

\* C1: the rule returned is the first rule of the file, in file order, that passes
\* the file, approval and mandatory-check gates: every rule before it failed one of
\* these gates, and when the rules before a fully satisfied rule each fail a gate
\* (failed mandatory checks included) that rule is the one returned, unless the
\* internal-changes gate raises for it.
C1_FirstSatisfiedRuleReturned ==
    /\ \A k \in 1..Len(tried) : tried[k].rule = rules[k].name
    /\ pc = "returned" =>
          \E i \in 1..Len(rules) :
              /\ outcome.rule = Some(rules[i])
              /\ GateOf(i) = "pass"
              /\ \A j \in 1..(i - 1) : GateOf(j) \in ScoredGates
    /\ Terminal =>
          \A i \in 1..Len(rules) :
              (/\ GateOf(i) = "pass"
               /\ \A j \in 1..(i - 1) : GateOf(j) \in ScoredGates
               /\ skip_internal_checks \/ ~InternalChangesPresent)
              => (pc = "returned" /\ outcome.rule = Some(rules[i]))

\* C1 witness: a rule is returned after an earlier rule failed its mandatory checks
C1_Witness ==
    /\ pc = "returned" /\ Len(tried) = 2
    /\ tried[1].gate = "failed" /\ tried[2].gate = "pass"

\* the approver set of a rule with every org/team entry replaced by its members
ExpandedApprovers(r) == rule_approvers_set(r)

\* C2: a rule whose approved_by list is not empty gets past the approval gates only
\* if some login that approved the PR is in the rule's approver set after team
\* expansion, also when a listed team has no members or does not exist.
C2_ApprovalNeedsListedApprover ==
    \A k \in 1..Len(tried) :
        (Len(rules[k].approved_by) > 0 /\ tried[k].gate \in PastApproval)
        => approved_by \cap ExpandedApprovers(rules[k]) /= {}

\* the mandatory patterns of a rule that contain "EasyCLA"
EasyCLAPatterns(r) ==
    {x \in (IF r.mandatory_checks_name = <<>> THEN {}
            ELSE Range(r.mandatory_checks_name[1])) : Contains(EasyCLA, x)}

\* the reported checks whose name contains an EasyCLA pattern of the rule
EasyCLAChecks(r) ==
    {n \in DOMAIN checks : \E x \in EasyCLAPatterns(r) : Contains(x, n)}

EasyCLAMissing(r) ==
    \E x \in EasyCLAPatterns(r) : \A n \in DOMAIN checks : ~Contains(x, n)

Concluded(n) == checks[n].status /= None
Passing(n) == checks[n].status \in {"SUCCESS", "SKIPPED", "NEUTRAL"}
Benign(n) == checks[n].classification \in {"FLAKY", "BROKEN_TRUNK"}

C4_TypedErrorIffPending ==
    Exhausted =>
        /\ outcome.kind = "MandatoryChecksMissingError" <=> reject_reason_score = 20000
        /\ outcome.kind /= "MandatoryChecksMissingError" => outcome.kind = "RuntimeError"
        /\ reject_reason_score = 20000 <=>
              /\ \E k \in 1..Len(tried) : tried[k].gate = "pending"
              /\ \A k \in 1..Len(tried) : tried[k].gate /= "failed"

\* C4 witness: the typed error is raised after two rules, one left pending
C4_Witness ==
    /\ Exhausted /\ outcome.kind = "MandatoryChecksMissingError"
    /\ Len(tried) = 2 /\ tried[1].gate = "pending" /\ tried[2].gate = "files"

\* the score the comments of 1180-1184 give the failure of rule k
FailureScore(k) ==
    CASE tried[k].gate = "files" ->
             Cardinality({i \in 1..Len(changed_files) :
                             patterns_match(rules[k].patterns, changed_files[i])})
      [] tried[k].gate \in {"not_reviewed", "approvers"} -> 10000
      [] tried[k].gate = "pending" -> 20000
      [] tried[k].gate = "failed" -> 30000
      [] OTHER -> 0

Failures == {k \in 1..Len(tried) : tried[k].gate \in ScoredGates}

FailureText(k) ==
    check_rule(rules[k], changed_files, approved_by, checks, skip_mandatory_checks).reason

\* C5 as stated: when no rule is satisfied the message raised is the message of a
\* rule failure whose score is the maximum over the failures of all rules.
C5_MessageAsStated ==
    Exhausted =>
        \E k \in Failures :
            /\ outcome.message = FailureText(k)
            /\ \A j \in Failures : FailureScore(j) <= FailureScore(k)

\* C5: while the rules are scanned the running score is the maximum of 0 and the
\* scores of the failures so far (so it never decreases), the running message is
\* the message of a failure with that score when the score is positive and the
\* default "No rule found to match PR" text when it is 0, and that message is the
\* one raised when no rule is satisfied.
C5_MaxScoreMessage ==
    /\ reject_reason_score = SetMax({0} \cup {FailureScore(k) : k \in Failures})
    /\ IF reject_reason_score = 0
       THEN reject_reason = NoRuleFound
       ELSE \E k \in Failures : /\ reject_reason = FailureText(k)
                                /\ FailureScore(k) = reject_reason_score
    /\ Exhausted => outcome.message = reject_reason

\* C5 witness: the raised message is that of the first rule, whose failure
\* outscores the failure of the second
C5_Witness ==
    /\ Exhausted /\ Len(tried) = 2
    /\ tried[1].gate = "approvers" /\ tried[2].gate = "files"
    /\ FailureScore(2) > 0
    /\ outcome.message = FailureText(1)

\* C6: the rule carried by MandatoryChecksMissingError is the rule whose mandatory
\* checks were found pending, the one named in the message, so the patterns read
\* from it are that rule's.
C6_ErrorCarriesPendingRule ==
    (pc = "raised" /\ outcome.kind = "MandatoryChecksMissingError") =>
        \E k \in 1..Len(tried) :
            /\ tried[k].gate = "pending"
            /\ outcome.message.rule = rules[k].name
            /\ outcome.rule = Some(rules[k])

\* C7: the internal-changes gate is reached only by a rule that passed the file,
\* approval and mandatory-check gates; when skip_internal_checks is false and the
\* PR has internal changes it raises a plain RuntimeError at once, whatever the
\* score, and no later rule is tried; otherwise the rule is returned.
C7_InternalGateShortCircuits ==
    /\ \A k \in 1..Len(tried) :
          /\ tried[k].gate \in {"internal", "pass"} =>
                (GateOf(k) = "pass" /\ k = Len(tried) /\ Terminal)
          /\ tried[k].gate = "internal" =>
                /\ ~skip_internal_checks /\ InternalChangesPresent
                /\ pc = "raised" /\ outcome.kind = "RuntimeError"
                /\ outcome.message = InternalChanges
          /\ tried[k].gate = "pass" =>
                /\ skip_internal_checks \/ ~InternalChangesPresent
                /\ pc = "returned" /\ outcome.rule = Some(rules[k])
    /\ (pc = "raised" /\ outcome.message = InternalChanges) =>
          (tried /= <<>> /\ tried[Len(tried)].gate = "internal")

\* C7 witness: the gate raises for the second of three rules after a rule with
\* pending checks, and the third rule is not tried
C7_Witness ==
    /\ pc = "raised" /\ outcome.message = InternalChanges
    /\ Len(tried) = 2 /\ tried[1].gate = "pending" /\ reject_reason_score = 20000

\* C7 witness of the other branch is part of C1's; this one is of the early stop
C7_WitnessEarlyStop ==
    /\ pc = "raised" /\ outcome.message = InternalChanges
    /\ Len(tried) < Len(rules)

-----------------------------------------------------------------------------
(* Properties of categorize_checks *)

Relevant(n) == \E k \in 1..Len(required_checks) : Contains(required_checks[k], n)

\* C8: each relevant check name is in at most one of the pending, failed and
\* ok-failed buckets, no entry is twice in the returned pending list or in the
\* returned failed list, and a required pattern that no check name contains is in
\* pending exactly once as (pattern, None).
C8_BucketsPartition ==
    cat_pc = "done" =>
        LET failed_bucket == EntryNames(failed_checks) \ EntryNames(ok_failed_checks)
        IN  /\ \A n \in DOMAIN check_runs :
                  Cardinality({b \in {"pending", "failed", "ok_failed"} :
                      \/ b = "pending" /\ n \in EntryNames(pending_checks)
                      \/ b = "failed" /\ n \in failed_bucket
                      \/ b = "ok_failed" /\ n \in EntryNames(ok_failed_checks)}) <= 1
            /\ NoDuplicates(pending_checks)
            /\ NoDuplicates(failed_checks)
            /\ \A k \in 1..Len(required_checks) :
                  (\A n \in DOMAIN check_runs : ~Contains(required_checks[k], n))
                  => Cardinality({i \in 1..Len(pending_checks) :
                         pending_checks[i] = <<required_checks[k], None>>}) = 1

\* the relevant checks that concluded without passing, by classification
BenignFailures ==
    {n \in DOMAIN check_runs :
        /\ Relevant(n)
        /\ check_runs[n].status \notin {None, "SUCCESS", "SKIPPED", "NEUTRAL", "skipped"}
        /\ check_runs[n].classification \in {"FLAKY", "BROKEN_TRUNK"}}

PlainFailures ==
    {n \in DOMAIN check_runs :
        /\ Relevant(n)
        /\ check_runs[n].status \notin {None, "SUCCESS", "SKIPPED", "NEUTRAL", "skipped"}
        /\ check_runs[n].classification \notin {"FLAKY", "BROKEN_TRUNK"}}

\* C9: when at most 3 relevant failures are classified FLAKY or BROKEN_TRUNK none of
\* them is in the returned failed list; when more than 3 are, every one of them is
\* in the failed list together with the unclassified failures.
C9_BenignFailuresUpToThreshold ==
    cat_pc = "done" =>
        /\ PlainFailures \subseteq EntryNames(failed_checks)
        /\ Cardinality(BenignFailures) <= 3 =>
              BenignFailures \cap EntryNames(failed_checks) = {}
        /\ Cardinality(BenignFailures) > 3 =>
              BenignFailures \subseteq EntryNames(failed_checks)

\* C9 witness: four benign failures and a plain one are all returned as failed
C9_Witness ==
    /\ cat_pc = "done"
    /\ Cardinality(BenignFailures) = 4
    /\ BenignFailures \subseteq EntryNames(failed_checks)

\* C9 witness of the tolerated side: exactly three benign failures, none returned
C9_WitnessTolerated ==
    /\ cat_pc = "done"
    /\ Cardinality(BenignFailures) = 3 /\ PlainFailures /= {}
    /\ EntryNames(failed_checks) = PlainFailures

\* C10: the checks considered are exactly those whose name contains a required
\* pattern: such a check with status None is pending, whatever its classification,
\* and not failed; such a check with a passing status is in neither list; a check
\* whose name contains no required pattern is in neither list.
C10_OnlyRelevantChecksCounted ==
    cat_pc = "done" =>
        \A n \in DOMAIN check_runs :
            /\ (Relevant(n) /\ check_runs[n].status = None) =>
                  (n \in EntryNames(pending_checks) /\ n \notin EntryNames(failed_checks))
            /\ (Relevant(n) /\ check_runs[n].status \in {"SUCCESS", "SKIPPED", "NEUTRAL", "skipped"}) =>
                  (n \notin EntryNames(pending_checks) /\ n \notin EntryNames(failed_checks))
            /\ ~Relevant(n) =>
                  (n \notin EntryNames(pending_checks) /\ n \notin EntryNames(failed_checks))

\* C10 witness: a relevant check without status but classified FLAKY is pending
\* while a failed check that matches no pattern is left out
C10_Witness ==
    /\ cat_pc = "done"
    /\ \E n \in DOMAIN check_runs :
          /\ Relevant(n) /\ check_runs[n].status = None
          /\ check_runs[n].classification = "FLAKY"
          /\ n \in EntryNames(pending_checks)
    /\ \E n \in DOMAIN check_runs :
          ~Relevant(n) /\ check_runs[n].status = "FAILURE" /\ check_runs[n].classification = None

-----------------------------------------------------------------------------
(* Vocabulary of the properties of merge() *)

Has(op, arg) == \E i \in 1..Len(log) : log[i] = Effect(op, arg)
Positions(op) == {i \in 1..Len(log) : log[i].op = op}
Last(op) == SetMax(Positions(op))

Pushed == Has("push", "default_branch")
BranchCreated == Has("create_branch", "landchecks")
BranchDeleted == Has("delete_branch", "landchecks")
MergeEnded == m_pc \in {"raised", "handled", "returned"}
MergeRaised == m_pc \in {"raised", "handled"}
Polling == m_pc \in {"poll_top", "poll_rule", "poll_eval", "poll_call", "poll_into"}

\* the effects of merge() itself: the log without the comment of main's handler
EffectsOfMerge == IF m_pc = "handled" THEN SubSeq(log, 1, Len(log) - 1) ELSE log

-----------------------------------------------------------------------------
(* Properties of merge() *)

\* C11: every poll iteration that gets past the SEV re-check rebuilds the PR
\* snapshot, and every rule evaluation of the poll loop comes after the rebuild of
\* its iteration, which found the head commit merge() started with; when the
\* rebuilt snapshot has another head commit, merge() ends in that iteration with the
\* "new commits" RuntimeError, no rule is evaluated after the rebuild, the deletion
\* of the land-check branch (if one was created) directly follows the rebuild, and
\* nothing is pushed to the default branch.
C11_NewPushAborts ==
    /\ Len(iterations) = Cardinality(Positions("snapshot"))
                         + (IF m_outcome.message = "sev" /\ iterations /= <<>>
                            THEN 1 ELSE 0)
    /\ \A i \in 1..Len(log) :
          log[i] = Effect("evaluate", "poll") =>
              (i > 1 /\ log[i - 1] = Effect("snapshot", initial_commit_sha))
    /\ \A i \in 1..Len(log) :
          (log[i] = Effect("evaluate", "merge_into") /\ iterations /= <<>>) =>
              (i > 2 /\ log[i - 2] = Effect("snapshot", initial_commit_sha))
    /\ head_oid /= initial_commit_sha =>
          /\ MergeRaised
          /\ m_outcome = MergeOutcome("RuntimeError", "new_commits")
          /\ \A i \in Positions("evaluate") : i < Last("snapshot")
          /\ BranchCreated =>
                (/\ Len(log) > Last("snapshot")
                 /\ log[Last("snapshot") + 1] = Effect("delete_branch", "landchecks"))
          /\ ~Pushed
    /\ m_outcome.message = "new_commits" => head_oid /= initial_commit_sha

\* C11 witness: a push is detected in the second iteration of a run that created
\* the land-check branch
C11_Witness ==
    /\ m_pc = "raised" /\ m_outcome.message = "new_commits"
    /\ BranchCreated /\ Len(iterations) = 2
    /\ log[Len(log)] = Effect("delete_branch", "landchecks")

\* the checks of the iteration's combined view, by what they report
PendingChecks == {n \in DOMAIN poll_checks : poll_checks[n].status = None}
FailingChecks ==
    {n \in DOMAIN poll_checks :
        /\ poll_checks[n].status \notin {None, "SUCCESS", "SKIPPED", "NEUTRAL"}
        /\ poll_checks[n].classification \notin {"FLAKY", "BROKEN_TRUNK"}}
StartupFailedChecks ==
    {n \in DOMAIN poll_checks : poll_checks[n].status = "STARTUP_FAILURE"}
MissingRequired ==
    \E k \in 1..Len(required_of_poll) :
        \A n \in DOMAIN poll_checks : ~Contains(required_of_poll[k], n)
LandChecksPassed ==
    ValidatesLandChecks =>
        /\ land_validation /= <<>>
        /\ \A n \in DOMAIN land_validation : land_validation[n].status = "SUCCESS"

\* C12 (states): while merge() is polling nothing was deleted, no failure was
\* reported and nothing was pushed.
C12_PollingIsQuiet ==
    Polling =>
        /\ ~BranchDeleted /\ ~Pushed
        /\ ~Has("label", "land-failed")
        /\ ~Has("comment", "merge_failed") /\ ~Has("print", "merge_failed")
        /\ m_outcome = MergeOutcome("none", "")

\* C12 (steps): an iteration whose rule evaluation did not raise a RuntimeError
\* and which finds a pending or missing check and no failed or startup-failed one
\* sleeps 300 s and goes back to the top of the loop, adding only the sleep to the
\* effects; an iteration whose rule evaluation returned a rule and whose checks
\* (those of the land-check commit included) all passed calls merge_into, and
\* merge_into pushes when its rule evaluation returns a rule and git does not
\* fail.
C12_PendingStep ==
    /\ (/\ m_pc = "poll_eval" /\ RuleEvaluated
        /\ (PendingChecks /= {} \/ MissingRequired)
        /\ FailingChecks = {} /\ StartupFailedChecks = {})
       => /\ m_pc' = "poll_top"
          /\ now' = now + 1
          /\ log' = Append(log, Effect("sleep", "300s"))
          /\ last_exception' \in {"rule_pending", "still_waiting"}
    /\ (/\ m_pc = "poll_eval" /\ outcome.kind = "return"
        /\ PendingChecks = {} /\ FailingChecks = {} /\ StartupFailedChecks = {}
        /\ LandChecksPassed)
       => m_pc' = "poll_call"
    /\ (m_pc = "poll_into" /\ outcome.kind = "return")
       => \/ m_pc' = "returned" /\ (dry_run \/ Pushed')
          \/ m_pc' = "raised" /\ m_outcome'.message = "git"

\* C12: pending checks are retried, not terminal, and a later iteration whose
\* checks all pass merges.
C12_PendingRetried == []C12_PollingIsQuiet /\ [][C12_PendingStep]_vars

\* C12 witness: the PR is merged in an iteration that follows a sleep caused by
\* pending mandatory checks
C12_Witness ==
    /\ m_pc = "returned" /\ Pushed
    /\ last_exception = "rule_pending"
    /\ Has("sleep", "300s") /\ ~Has("label", "land-failed")

\* C13 (steps): in an iteration whose snapshot has a check with status
\* STARTUP_FAILURE or a failed check, merge() raises a RuntimeError in the step
\* that follows the rule evaluation, without sleeping (the clock does not move and
\* no sleep is added) and without pushing; when the rule evaluation itself did not
\* raise, the error is the startup-failure one if any check has STARTUP_FAILURE,
\* even with failed and pending checks present, and else the failed-jobs one, even
\* with pending checks present.
C13_FailureStep ==
    (m_pc = "poll_eval" /\ (StartupFailedChecks /= {} \/ FailingChecks /= {}))
    => /\ m_pc' = "raised"
       /\ m_outcome'.kind = "RuntimeError"
       /\ now' = now /\ Positions("sleep")' = Positions("sleep")
       /\ ~Pushed'
       /\ RuleEvaluated =>
             m_outcome'.message = IF StartupFailedChecks /= {}
                                  THEN "startup_failures" ELSE "failed_jobs"
       /\ ~RuleEvaluated => m_outcome'.message = "rejected"

\* C13 (states): a run that ended with the startup-failure or the failed-jobs
\* error is not retried and pushed nothing, and the error is raised only for a
\* snapshot that has such a check.
C13_FailureIsFinal ==
    m_outcome.message \in {"startup_failures", "failed_jobs"} =>
        /\ MergeRaised /\ ~Pushed
        /\ m_outcome.kind = "RuntimeError"
        /\ m_outcome.message = "startup_failures" <=> StartupFailedChecks /= {}
        /\ FailingChecks /= {}
        /\ EffectsOfMerge[Len(EffectsOfMerge)].op \in {"evaluate", "delete_branch"}

\* C13: startup failures and failed checks are terminal, in that order of
\* precedence, before waiting for pending checks.
C13_FailuresAreTerminal == []C13_FailureIsFinal /\ [][C13_FailureStep]_vars

\* C13 witness: the startup-failure error is raised for a snapshot that also has
\* a failed and a pending check
C13_Witness ==
    /\ m_pc = "raised" /\ m_outcome = MergeOutcome("RuntimeError", "startup_failures")
    /\ PendingChecks /= {} /\ FailingChecks /= {}
    /\ outcome.kind = "MandatoryChecksMissingError"

\* C13 witness of the second precedence: failed jobs win over pending ones
C13_WitnessFailedOverPending ==
    /\ m_pc = "raised" /\ m_outcome = MergeOutcome("RuntimeError", "failed_jobs")
    /\ PendingChecks /= {} /\ Has("sleep", "300s")

\* C14: when the poll loop ends by timeout (the last measured elapsed time is not
\* below the timeout) a RuntimeError with the timeout message is raised, carrying
\* the reason of the last sleep (empty when no iteration slept), and nothing was
\* pushed; the PR is labelled 'land-failed' as the last effect of merge() and the
\* handler of main posts the error as a comment (in dry-run mode, which suppresses
\* every POST, no label is added and the comment is printed); the label is added
\* on no other path, and once.
C14_TimeoutPath ==
    /\ m_outcome.message = "timeout" =>
          /\ MergeRaised /\ m_outcome.kind = "RuntimeError"
          /\ ~(elapsed_time < timeout)
          /\ last_exception = "" <=> ~Has("sleep", "300s")
          /\ ~Pushed
          /\ Has("label", "land-failed") <=> ~dry_run
          /\ ~dry_run =>
                EffectsOfMerge[Len(EffectsOfMerge)] = Effect("label", "land-failed")
          /\ m_pc = "handled" =>
                log[Len(log)] = IF dry_run THEN Effect("print", "merge_failed")
                                ELSE Effect("comment", "merge_failed")
    /\ Has("label", "land-failed") =>
          (m_outcome.message = "timeout" /\ Cardinality(Positions("label")) = 1)

\* C14 witness: a run outside dry-run mode timed out after sleeping on pending
\* checks, was labelled and had its error posted
C14_Witness ==
    /\ m_pc = "handled" /\ m_outcome.message = "timeout" /\ ~dry_run
    /\ last_exception = "still_waiting"
    /\ Has("label", "land-failed") /\ Has("comment", "merge_failed")

\* C15: every poll iteration starts while the time elapsed since polling began is
\* below the timeout: no iteration starts once that much time has elapsed.
C15_IterationsStartBeforeTimeout ==
    \A i \in 1..Len(iterations) : iterations[i] < timeout

\* what the code guarantees instead: the elapsed time measured at the top of the
\* iteration before (0 for the first) was below the timeout
C15_PreviousMeasureBelowTimeout ==
    \A i \in 1..Len(iterations) :
        (IF i = 1 THEN 0 ELSE iterations[i - 1]) < timeout

MergeDone == m_pc \in {"handled", "returned"}

\* C16: every run of merge() ends: it performs the merge, or raises an error that
\* main's handler reports, the timeout error included; it does not poll forever,
\* even when the checks stay pending in every iteration.
C16_MergeTerminates ==
    /\ <>MergeDone
    /\ [](MergeDone => \/ m_outcome.kind = "merged"
                       \/ m_outcome.kind \in {"RuntimeError", "ValueError",
                                              "MandatoryChecksMissingError",
                                              "CalledProcessError"})
    /\ [](Len(iterations) <= timeout + 1 /\ now <= timeout + 1)

\* C16 witness: the checks stayed pending in every iteration of the longest
\* timeout and the run ended on the timeout path
C16_Witness ==
    /\ m_pc = "handled" /\ m_outcome.message = "timeout"
    /\ timeout = MaxTimeout
    /\ Cardinality(Positions("sleep")) = Len(iterations)
    /\ Len(iterations) = timeout + 1

\* C17: once the land-check branch has been created, every terminal outcome of
\* merge() (merge, timeout, stale PR, new push, SEV found while polling, failed
\* checks, rejected rule evaluation) comes after a deletion of that branch.
C17_BranchDeletedBeforeEnd ==
    (MergeEnded /\ BranchCreated) =>
        \E i \in Positions("delete_branch") : i > Last("create_branch")

\* the terminal outcomes that the code does precede with the deletion: all but the
\* SEV found at the top of an iteration (1606, outside the try of 1615) and an
\* error of merge_into that is no RuntimeError (1657)
C17_DeletedUnlessSevOrOtherError ==
    (MergeEnded /\ BranchCreated
        /\ m_outcome.message /= "sev"
        /\ m_outcome.kind \in {"merged", "RuntimeError"}) =>
        \E i \in Positions("delete_branch") : i > Last("create_branch")

\* the PR fails the file-match or approval gates of every rule: the evaluation of
\* 1584 raises
FailsApprovalGate ==
    find_matching_merge_rule(PRView(None), rules, TRUE, FALSE).kind /= "return"

\* a step that creates the land-check branch or enters the poll loop is taken
\* right after the evaluation of 1584 has returned; when that evaluation raises,
\* merge() ends with its error
C18_GateStep ==
    /\ ((~BranchCreated /\ BranchCreated') \/ (~Polling /\ Polling')) =>
           /\ m_pc = "gate" /\ outcome.kind = "return"
           /\ log[Len(log)] = Effect("evaluate", "gate")
    /\ (m_pc = "gate" /\ outcome.kind /= "return") =>
           /\ m_pc' = "raised" /\ m_outcome'.kind = outcome.kind
           /\ log' = log

C18_GateState ==
    /\ m_pc = "gate" =>
           outcome = find_matching_merge_rule(PRView(None), rules, TRUE, FALSE)
    /\ FailsApprovalGate =>
           /\ ~BranchCreated /\ ~Polling
           /\ iterations = <<>> /\ ~Has("sleep", "300s")

\* C18: the land-check branch is created, and the poll loop entered, only after
\* find_matching_merge_rule with skip_mandatory_checks=True has returned; for a PR
\* that fails the gates of every rule no branch is created and nothing is polled.
C18_BranchOnlyAfterGate == []C18_GateState /\ [][C18_GateStep]_vars

\* C18 witness: land checks were asked for, the gate was evaluated and raised, and
\* the run ended with no branch
C18_Witness ==
    /\ m_pc = "handled" /\ land_checks /\ ~dry_run
    /\ FailsApprovalGate /\ Has("evaluate", "gate")
    /\ m_outcome.message = "rejected"
    /\ ~BranchCreated /\ iterations = <<>>

\* C18 witness: the gate returned and the branch was created after it
C18_WitnessCreated ==
    /\ Polling /\ BranchCreated
    /\ Last("evaluate") < Last("create_branch")

\* the comment that triggered the merge was written by facebook-github-bot and
\* never edited
TrustedComment ==
    /\ comment_id /= <<>>
    /\ get_comment_by_id(comment_id[1]).author_login = "facebook-github-bot"
    /\ get_comment_by_id(comment_id[1]).editor_login = None

BypassGranted == skip_mandatory_checks \/ TrustedComment

\* the first check_for_sev (1568) has returned
PastFirstSevCheck == m_pc /= "start" /\ ~(MergeRaised /\ EffectsOfMerge = <<>>)

\* C19: with skip_mandatory_checks, or with a trigger comment of
\* facebook-github-bot that was never edited, merge() posts the merge message
\* (prints it in a dry run) and calls merge_into next, once the first SEV check
\* has returned: it never polls, never sleeps and never creates the land-check
\* branch. Without them (edited comment, other author, no comment_id) the first
\* step is the approval gate and merge_into is only called from the poll loop.
C19_Bypass ==
    /\ BypassGranted =>
          /\ ~Polling /\ iterations = <<>>
          /\ ~Has("sleep", "300s") /\ ~BranchCreated
          /\ ~Has("evaluate", "gate") /\ ~Has("evaluate", "poll")
          /\ PastFirstSevCheck =>
                /\ EffectsOfMerge[1] = gh_post_pr_comment("merge_message")
                /\ Len(EffectsOfMerge) >= 2 =>
                       EffectsOfMerge[2] = Effect("evaluate", "merge_into")
                /\ m_pc \in {"bypass_call", "bypass_into", "raised", "handled",
                              "returned"}
    /\ ~BypassGranted =>
          /\ m_pc \notin {"bypass_call", "bypass_into"}
          /\ PastFirstSevCheck => EffectsOfMerge[1] = Effect("evaluate", "gate")
          /\ Has("evaluate", "merge_into") =>
                /\ Has("evaluate", "poll")
                /\ iterations /= <<>>

\* C19 witness: a trusted comment without skip_mandatory_checks, land checks asked
\* for: the message is posted, merge_into is called and pushes, with no gate, no
\* branch and no poll
C19_Witness ==
    /\ TrustedComment /\ ~skip_mandatory_checks /\ land_checks /\ ~dry_run
    /\ m_pc = "returned"
    /\ log = <<Effect("comment", "merge_message"), Effect("evaluate", "merge_into"),
               Effect("push", "default_branch"), Effect("label", "merged")>>

\* C19 witness: an edited comment of the bot goes through the gate and the loop
C19_WitnessEdited ==
    /\ comment_id /= <<>>
    /\ get_comment_by_id(comment_id[1]).author_login = "facebook-github-bot"
    /\ get_comment_by_id(comment_id[1]).editor_login /= None
    /\ ~skip_mandatory_checks
    /\ m_pc = "returned" /\ Has("evaluate", "gate") /\ iterations /= <<>>

\* an open 'ci: sev' issue of the answer has 'merge blocking' in its body, in any
\* letter case
MergeBlockingSev(response) ==
    \E i \in 1..Len(response.items) :
        \E k \in 0..(Len(response.items[i].body) - Len(merge_blocking)) :
            \A j \in 1..Len(merge_blocking) :
                lower(<<response.items[i].body[k + j]>>) = <<merge_blocking[j]>>

\* a step that calls check_for_sev: the first one of merge() (1568) or the top of
\* a poll iteration (1606); sev' is the answer of the issue search
C20_SevStep ==
    (m_pc = "start" \/ InLoopOfMerge) =>
        IF ~skip_mandatory_checks /\ MergeBlockingSev(sev')
        THEN /\ m_pc' = "raised"
             /\ m_outcome' = MergeOutcome("RuntimeError", "sev")
             /\ log' = log /\ ~Pushed'
        ELSE /\ m_pc' /= "raised" \/ m_outcome'.message /= "sev"
             /\ m_pc = "start" => m_pc' \in {"bypass_call", "gate"}

C20_SevState ==
    /\ m_outcome.message = "sev" =>
          /\ MergeRaised /\ m_outcome.kind = "RuntimeError"
          /\ ~Pushed /\ ~skip_mandatory_checks
          /\ MergeBlockingSev(sev)
    /\ MergeRaised => ~Pushed

\* C20: without skip_mandatory_checks, a merge-blocking SEV found by the first
\* check or at the top of a poll iteration ends merge() with a RuntimeError and
\* nothing is pushed to the default branch; with skip_mandatory_checks the check
\* never ends the merge.
C20_SevBlocks == []C20_SevState /\ [][C20_SevStep]_vars

\* C20 witness: the SEV appeared while polling, after an iteration that waited
C20_Witness ==
    /\ m_pc = "handled" /\ m_outcome.message = "sev"
    /\ Len(iterations) = 2 /\ Has("sleep", "300s")
    /\ MergeBlockingSev(sev) /\ ~Pushed

\* C20 witness: with skip_mandatory_checks the merge goes through an open
\* merge-blocking SEV
C20_WitnessSkipped ==
    /\ m_pc = "returned" /\ Pushed
    /\ skip_mandatory_checks /\ MergeBlockingSev(sev)

\* the staleness test (1595) was reached: no bypass, and the gate has returned
StaleTestReached ==
    \/ Polling
    \/ MergeEnded /\ Has("evaluate", "gate")
          /\ EffectsOfMerge /= <<Effect("evaluate", "gate")>>

RejectedAsStale ==
    /\ MergeRaised /\ m_outcome = MergeOutcome("RuntimeError", "stale")
    /\ iterations = <<>> /\ ~Polling
    /\ BranchCreated => Last("delete_branch") > Last("create_branch")

\* C21: on the path without bypass, a PR whose last push is more than
\* stale_pr_days days old (last_push_age counts half days) is rejected as stale,
\* before any poll iteration and after the deletion of the land-check branch if
\* one was created; a PR pushed at most stale_pr_days days ago is not.
C21_StaleRejected ==
    /\ (StaleTestReached /\ last_push_age > 2 * stale_pr_days) => RejectedAsStale
    /\ (StaleTestReached /\ last_push_age <= 2 * stale_pr_days) =>
           m_outcome.message /= "stale"

\* what the code guarantees instead: the test is on the whole days of the age
\* (timedelta.days), so a push of 3 days and 12 hours ago is not stale
C21_StaleByWholeDays ==
    /\ (StaleTestReached /\ days(last_push_age) > stale_pr_days) => RejectedAsStale
    /\ (StaleTestReached /\ days(last_push_age) <= stale_pr_days) =>
           m_outcome.message /= "stale"

\* the positions of the log where add_numbered_label("merged") is called
MergedLabels == Positions("label_merged_on") \cup
                {i \in Positions("label") : log[i].arg = "merged"}

\* add_numbered_label("merged") was called for the PR of entry e of the stack
LabelledMerged(e) ==
    IF e.num = pr_num THEN Has("label", "merged")
    ELSE Has("label_merged_on", e.num)

\* C22: in a merge that is no dry run, merge_into deletes the land-check branch
\* and adds the 'merged' labels only after the push to the default branch has
\* returned; then the target and every PR below it that was merged with it has
\* got a 'merged' label. When the rule evaluation, a git command or the push
\* fails, no 'merged' label is added.
C22_LabelsAfterPush ==
    /\ \A i \in MergedLabels :
          /\ ~dry_run
          /\ \E j \in 1..(i - 1) : log[j] = Effect("push", "default_branch")
    /\ m_outcome.kind = "merged" =>
          /\ Cardinality(Positions("push")) = 1
          /\ \A i \in Positions("delete_branch") : i > Last("push")
          /\ land_check_commit /= None /\ ~dry_run => BranchDeleted
          /\ ~dry_run =>
                /\ Has("label", "merged")
                /\ \A k \in 1..Len(stack) :
                      Has("cherry_pick", stack[k].rev) => LabelledMerged(stack[k])
    /\ MergeRaised => MergedLabels = {} /\ ~Pushed

\* C22 witness: a stack of three open PRs was pushed and each got its label
C22_Witness ==
    /\ m_pc = "returned" /\ ~dry_run
    /\ Len(ghstack_prs) = 3
    /\ Cardinality(Positions("cherry_pick")) = 3
    /\ \A k \in 1..3 : LabelledMerged(ghstack_prs[k])

\* C22 witness: the land-check branch is deleted after the push, before the label
C22_WitnessLandChecks ==
    /\ m_pc = "returned" /\ ~dry_run /\ land_check_commit /= None
    /\ Last("push") < Last("delete_branch")
    /\ Last("delete_branch") < Last("label")

\* C22 witness: the push of a stack failed after the cherry-picks of all its PRs
C22_WitnessPushFails ==
    /\ m_pc = "handled" /\ m_outcome.message = "git" /\ ~dry_run
    /\ Len(ghstack_prs) = 2 /\ Cardinality(Positions("cherry_pick")) = 2

\* the place of a revision in the stack, oldest first
PlaceOf(rev) == CHOOSE k \in 1..Len(stack) : stack[k].rev = rev

\* the rule evaluation of merge_into or merge_ghstack_into accepts the PR of entry e
RulesAccept(e) ==
    IF e.num = pr_num
    THEN find_matching_merge_rule(PRView(land_check_commit), rules,
                                  skip_mandatory_checks,
                                  can_skip_internal_checks(comment_id)).kind = "return"
    ELSE find_matching_merge_rule(StackedPRView(e), rules, skip_mandatory_checks,
                                  can_skip_internal_checks(comment_id)).kind = "return"

\* C23: in the merge of a stack, find_matching_merge_rule is evaluated for each
\* open PR below the target right before its revision is cherry-picked, the
\* revisions are cherry-picked oldest first, and nothing is pushed unless the
\* rules accept the target and every open PR below it.
C23_StackEvaluatedInOrder ==
    /\ \A i \in Positions("cherry_pick") :
          LET e == stack[PlaceOf(log[i].arg)]
          IN  /\ in_entire_stack(e)
              /\ RulesAccept(e)
              /\ e.num /= pr_num => log[i - 1] = Effect("evaluate_pr", e.num)
              /\ \E j \in 1..(i - 1) : log[j] = Effect("evaluate", "merge_into")
              /\ \A j \in Positions("cherry_pick") :
                    j < i => PlaceOf(log[j].arg) < PlaceOf(log[i].arg)
    /\ Positions("push") /= {} =>
          \A k \in 1..Len(stack) :
              in_entire_stack(stack[k]) =>
                  /\ RulesAccept(stack[k])
                  /\ \E i \in Positions("cherry_pick") :
                        i < Last("push") /\ log[i].arg = stack[k].rev

\* C23 witness: a stack with two open PRs below the target was pushed
C23_Witness ==
    /\ m_pc = "returned" /\ Pushed
    /\ Len(stack) = 3 /\ Len(ghstack_prs) = 3
    /\ Cardinality(Positions("evaluate_pr")) = 2

\* C23 witness: the PR in the middle is rejected after the cherry-pick of the one
\* below it, and nothing is pushed
C23_WitnessRejected ==
    /\ m_pc = "handled" /\ m_outcome.message = "rejected"
    /\ Has("cherry_pick", "rev1") /\ Has("evaluate_pr", "11")
    /\ ~Has("cherry_pick", "rev2") /\ Positions("push") = {}

\* C23 witness: a closed PR below the target is left out and the rest is pushed
C23_WitnessClosedSkipped ==
    /\ m_pc = "returned" /\ Pushed
    /\ Len(stack) = 3 /\ Len(ghstack_prs) = 2

\* an entry of the enumerated stack whose forge-reported tree oid is not in the
\* message of its revision
OutOfSync(e) == in_entire_stack(e) /\ ~Contains(e.tree, e.message)
SomeEntryOutOfSync == \E k \in 1..Len(stack) : OutOfSync(stack[k])

\* the first step of merge() on a ghstack PR with an entry out of sync
C24_FirstStep ==
    (m_pc = "start" /\ SomeEntryOutOfSync) =>
        /\ get_ghstack_prs(stack).kind = "RuntimeError"
        /\ m_pc' = "raised"
        /\ m_outcome' = MergeOutcome("RuntimeError", get_ghstack_prs(stack).message)
        /\ m_outcome'.message /= "sev"
        /\ log' = <<>> /\ DOMAIN sev' = {}
        /\ outcome' = outcome

C24_EndState ==
    (MergeEnded /\ m_outcome.message \in {"out_of_sync", "no_pr_resolved",
                                            "wrong_repo"}) =>
        /\ MergeRaised /\ m_outcome.kind = "RuntimeError"
        /\ Positions("push") = {} /\ MergedLabels = {}
        /\ Positions("label") = {}
        /\ EffectsOfMerge = <<>> \/ Has("evaluate", "merge_into")

\* C24: when an entry of the enumerated stack of a ghstack PR is out of sync,
\* get_ghstack_prs raises and merge() ends with that error before the SEV check
\* and before any rule evaluation: nothing is pushed and no label is added.
C24_OutOfSyncIsFatal == []C24_EndState /\ [][C24_FirstStep]_vars

\* C24 witness: an open PR below the target is out of sync, the target is not
C24_Witness ==
    /\ m_pc = "handled" /\ m_outcome.message = "out_of_sync"
    /\ EffectsOfMerge = <<>> /\ DOMAIN sev = {}
    /\ \E k \in 1..Len(stack) :
          /\ stack[k].num /= pr_num /\ OutOfSync(stack[k])
          /\ \A j \in 1..Len(stack) : j /= k => ~OutOfSync(stack[j])

\* the label is base when base is not in the set, else the first name of baseX2,
\* baseX3, ... that is not in the set
FirstUnused(base, label, set) ==
    /\ label \notin set
    /\ base \notin set => label = base
    /\ base \in set =>
          \E n \in 2..(Cardinality(set) + 1) :
              /\ label = base \o "X" \o ToString(n)
              /\ \A m \in 2..(n - 1) : (base \o "X" \o ToString(m)) \in set

\* C25: each call of add_numbered_label(base) adds a label that the PR does not
\* carry yet: base when it is unused, else the first unused name of baseX2,
\* baseX3, ...
C25_AddsUnusedLabel ==
    \A k \in 1..Len(label_calls) :
        FirstUnused(label_calls[k].base, label_calls[k].label, label_calls[k].carried)

\* what the code guarantees instead: the label is unused in the list get_labels
\* returned, which is the list cached by the first call on the PR object
C25_UnusedInCachedList ==
    \A k \in 1..Len(label_calls) :
        FirstUnused(label_calls[k].base, label_calls[k].label, label_calls[k].seen)

\* a first call on a PR that carries merged and mergedX2 adds mergedX3
C25_ReachedNumbered ==
    /\ Len(label_calls) = 1
    /\ label_calls[1].carried = {"merged", "mergedX2", "bug"}
    /\ label_calls[1].label = "mergedX3"

\* the revert command is unedited and its author is COLLABORATOR, MEMBER or OWNER,
\* or CONTRIBUTOR of a private base repository
AuthorisedReverter ==
    /\ revert_comment.editor_login = None
    /\ \/ revert_comment.author_association \in {"COLLABORATOR", "MEMBER", "OWNER"}
       \/ revert_comment.author_association = "CONTRIBUTOR" /\ revert_info.private

GitOfRevert ==
    {i \in 1..Len(log) : log[i].op \in {"checkout", "revert", "amend", "push"}}

\* C26: a revert is made only for an unedited command of an authorised author;
\* otherwise validate_revert raises PostCommentError, try_revert posts (prints in
\* a dry run) the refusal and returns: no git command, no label, no commit comment.
C26_RevertNeedsAuthorisation ==
    /\ (~AuthorisedReverter /\ m_pc /= "revert_start") =>
          /\ m_pc = "returned" /\ m_outcome.kind = "refused"
          /\ m_outcome.message = IF revert_comment.editor_login /= None
                                 THEN "refused_edited_command"
                                 ELSE "refused_association"
          /\ log = <<gh_post_pr_comment("revert_message"),
                     gh_post_pr_comment(m_outcome.message)>>
    /\ (GitOfRevert /= {} \/ Positions("label") /= {}
          \/ Positions("commit_comment") /= {} \/ Positions("evaluate") /= {}) =>
          AuthorisedReverter

\* C26 witness: an unedited command of an author with association NONE on a
\* public repository is refused
C26_Witness ==
    /\ m_pc = "returned" /\ m_outcome.message = "refused_association"
    /\ revert_comment.editor_login = None
    /\ revert_comment.author_association = "NONE" /\ ~revert_info.private
    /\ GitOfRevert = {}

\* C26 witness: a CONTRIBUTOR of a private repository reverts
C26_WitnessPrivateContributor ==
    /\ m_pc = "returned" /\ m_outcome.kind = "reverted"
    /\ revert_comment.author_association = "CONTRIBUTOR" /\ revert_info.private

\* validate_revert returns: the command is authorised, the rules accept the PR
\* with skip_mandatory_checks=True, a commit is found and it was not landed from
\* a diff (unless internal checks can be skipped)
RevertValidated ==
    /\ AuthorisedReverter
    /\ find_matching_merge_rule(PRView(None), rules, TRUE,
                                can_skip_internal_checks(comment_id)).kind = "return"
    /\ \/ revert_info.merge_commit /= None
       \/ revert_repo.commits /= <<>>
    /\ revert_repo.landed_as = None \/ can_skip_internal_checks(comment_id)

\* the effects of try_revert after validate_revert, SubSeq of the log
AfterValidation == SubSeq(EffectsOfMerge, 3, Len(EffectsOfMerge))

\* C27: try_revert runs checkout, git revert, amend and push in this order and
\* only after validate_revert has returned; the 'reverted' comment, the
\* 'reverted' label and the comment on the reverted commit come only after the
\* push has returned; a dry run adds no label and no commit comment.
C27_RevertOrder ==
    /\ GitOfRevert /= {} =>
          /\ RevertValidated
          /\ SubSeq(log, 1, 2) = <<gh_post_pr_comment("revert_message"),
                                   Effect("evaluate", "revert")>>
          /\ \E n \in 1..Len(revert_git) :
                /\ Len(AfterValidation) >= n
                /\ SubSeq(AfterValidation, 1, n) = SubSeq(revert_git, 1, n)
                /\ n < Len(revert_git) => Len(AfterValidation) = n /\ MergeRaised
    /\ \A i \in 1..Len(log) :
          (log[i].op \in {"label", "commit_comment"} \/ log[i].arg = "reverted") =>
              /\ \E j \in 1..(i - 1) : log[j].op = "push"
              /\ log[i].op \in {"label", "commit_comment"} => ~dry_run
    /\ m_outcome.kind = "reverted" =>
          /\ RevertValidated
          /\ AfterValidation =
                <<Effect("checkout", "default_branch"), Effect("revert", commit_sha),
                  Effect("amend", "revert_msg")>>
                \o (IF dry_run
                    THEN <<Effect("push", "dry_run"), Effect("print", "reverted")>>
                    ELSE <<Effect("push", "default_branch"),
                           Effect("comment", "reverted"),
                           Effect("label", "reverted"),
                           Effect("commit_comment", commit_sha)>>)

\* C27 witness: a revert that is no dry run, of the commit found in the history
C27_Witness ==
    /\ m_pc = "returned" /\ m_outcome.kind = "reverted" /\ ~dry_run
    /\ revert_info.merge_commit = None /\ Has("revert", "sha2")
    /\ Has("commit_comment", "sha2")

\* C27 witness: a dry run of a revert
C27_WitnessDryRun ==
    /\ m_pc = "returned" /\ m_outcome.kind = "reverted" /\ dry_run
    /\ Has("push", "dry_run")

\* C27 witness: the push fails after the amend
C27_WitnessPushFails ==
    /\ m_pc = "handled" /\ m_outcome.message = "git"
    /\ Positions("amend") /= {} /\ Positions("push") = {}

-----------------------------------------------------------------------------
(* C28: the approvals are the latest decisions of the reviewers *)

\* the pages the loop of _get_reviews takes up
PagesTaken ==
    SubSeq(review_pages, 1,
           IF Len(review_pages) < ReviewPageCap THEN Len(review_pages) ELSE ReviewPageCap)

\* the reviews of the pages taken up, oldest first
RECURSIVE OldestFirst(_)
OldestFirst(pages) ==
    IF pages = <<>> THEN <<>> ELSE OldestFirst(Tail(pages)) \o Head(pages)

\* the latest state of login that is not COMMENTED, "None" if there is none
LatestDecision(login) ==
    LET history == OldestFirst(PagesTaken)
        decisions == {i \in 1..Len(history) :
                         history[i].login = login /\ history[i].state /= "COMMENTED"}
    IN  IF decisions = {} THEN "None" ELSE history[SetMax(decisions)].state

\* C28: what get_approved_by returns lists, each once, exactly the authors
\* whose latest review state other than COMMENTED, over the reviews of the
\* pages taken up from the oldest to the newest, is APPROVED.
C28_LatestDecisionWins ==
    approved_returned /= <<>> =>
        LET returned == approved_returned[1]
        IN  /\ Range(returned) = {login \in {alice, bob} : LatestDecision(login) = "APPROVED"}
            /\ \A i, j \in 1..Len(returned) : returned[i] = returned[j] => i = j

\* alice approved on an older page and requested changes or was dismissed on
\* a newer one; bob approved and commented afterwards; alice is not returned
\* and bob is
C28_Witness ==
    /\ approved_returned /= <<>>
    /\ Len(PagesTaken) = 2
    /\ \E i \in 1..Len(review_pages[2]) :
          review_pages[2][i] = [login |-> alice, state |-> "APPROVED"]
    /\ \E i \in 1..Len(review_pages[1]) :
          /\ review_pages[1][i].login = alice
          /\ review_pages[1][i].state \in {"CHANGES_REQUESTED", "DISMISSED"}
    /\ LET history == OldestFirst(PagesTaken)
       IN  \E i, j \in 1..Len(history) :
              /\ i < j
              /\ history[i] = [login |-> bob, state |-> "APPROVED"]
              /\ history[j] = [login |-> bob, state |-> "COMMENTED"]
    /\ approved_returned[1] = <<bob>>

\* there are more pages than the loop takes up
C28_WitnessPageCap ==
    /\ approved_returned /= <<>>
    /\ Len(review_pages) > ReviewPageCap

-----------------------------------------------------------------------------
(* C29: two evaluations on the same inputs *)

\* C29: two evaluations of find_matching_merge_rule on the same changed files,
\* approvals, checks, rule list and flags select the same rule, or raise the
\* same kind of error with the same rejection text.
C29_SameOutcomeAndText ==
    \A i, j \in 1..Len(evaluations) : evaluations[i] = evaluations[j]

\* Two evaluations on the same inputs select the same rule or raise the same
\* kind of error, and their texts differ at most in the order in which the
\* approvers of the rule are listed.
C29_SameUpToOrderOfApprovers ==
    \A i, j \in 1..Len(evaluations) :
        /\ evaluations[i].kind = evaluations[j].kind
        /\ evaluations[i].rule = evaluations[j].rule
        /\ evaluations[i].text.message = evaluations[j].text.message
        /\ Range(evaluations[i].text.names) = Range(evaluations[j].text.names)
        /\ evaluations[i].text.names /= evaluations[j].text.names
              => /\ evaluations[i].kind = "RuntimeError"
                 /\ evaluations[i].text.message.kind = "approvers"

\* two runs have selected the same rule
C29_ReachedSameRule ==
    /\ Len(evaluations) = 2
    /\ evaluations[1].kind = "return"
    /\ evaluations[1] = evaluations[2]

-----------------------------------------------------------------------------
(* C30: a dry run changes nothing outside *)

\* a comment posted, a label added, the land-check branch created (pushed) or
\* deleted, a branch pushed for real
OutwardMutation(e) ==
    \/ e.op \in {"comment", "commit_comment", "label", "label_merged_on",
                 "create_branch", "delete_branch"}
    \/ e.op = "push" /\ e.arg /= "dry_run"

\* C30: with dry_run set, a run of merge() or of try_revert() posts no comment
\* (it prints them), adds no label, neither creates nor deletes the land-check
\* branch, and pushes the default branch only in the dry-run mode of the push.
C30_DryRunFrame ==
    dry_run => \A i \in 1..Len(log) : ~OutwardMutation(log[i])

\* a dry run of merge() with land checks asked for has merged: the message is
\* printed and the push is a dry run
C30_Witness ==
    /\ dry_run /\ land_checks
    /\ m_pc = "returned" /\ m_outcome.kind = "merged"
    /\ Has("print", "merge_message") /\ Has("push", "dry_run")

\* a dry run of merge() with land checks asked for has timed out
C30_WitnessTimeout ==
    /\ dry_run /\ land_checks
    /\ m_outcome.message = "timeout"
    /\ Has("print", "merge_failed")

\* a dry run of try_revert has reverted the commit
C30_WitnessRevert ==
    /\ dry_run
    /\ m_pc = "returned" /\ m_outcome.kind = "reverted"
    /\ Has("print", "reverted") /\ Has("push", "dry_run")

\* a dry run of merge() on a ghstack PR has merged the stack
C30_WitnessStack ==
    /\ dry_run /\ is_ghstack_pr
    /\ m_pc = "returned" /\ m_outcome.kind = "merged"
    /\ Positions("cherry_pick") /= {}

-----------------------------------------------------------------------------
(* C31: a passing check run is kept *)

\* the jobs of the workflow named name, of no_workflow_obj for None
JobsOf(wfs, no_wf, name) ==
    IF name = None THEN no_wf
    ELSE IF workflow_index(wfs, name) = 0 THEN <<>>
    ELSE wfs[workflow_index(wfs, name)].jobs

\* a job that holds a passing status is left as it is by the step
PassingJobsKept ==
    \A name \in {None, "A"} :
        \A job \in DOMAIN JobsOf(workflows, no_workflow_obj, name) :
            is_passing_status(JobsOf(workflows, no_workflow_obj, name)[job].status)
                => /\ job \in DOMAIN JobsOf(workflows', no_workflow_obj', name)
                   /\ JobsOf(workflows', no_workflow_obj', name)[job]
                        = JobsOf(workflows, no_workflow_obj, name)[job]

\* the check run the step has taken up has replaced the entry of its name
\* unless that entry was passing
OthersReplaced ==
    processed' /= processed =>
        LET run == processed'[Len(processed')]
        IN  (run.existing = <<>> \/ ~is_passing_status(run.existing[1].status))
                => JobsOf(workflows', no_workflow_obj', run.workflow)[run.name].status
                     = run.status

PassingReportedUnlessShared ==
    conclusions /= <<>> =>
        \A k \in 1..Len(processed) :
            /\ is_passing_status(processed[k].status)
            /\ \A j \in 1..Len(processed) :
                  processed[j].name = processed[k].name
                      => processed[j].workflow = processed[k].workflow
            => /\ processed[k].name \in DOMAIN conclusions[1]
               /\ is_passing_status(conclusions[1][processed[k].name].status)

-----------------------------------------------------------------------------
(* C32: a cancelled rerun is left out *)

\* the suite at edge e is CANCELLED and an earlier suite has its workflow name
CancelledRerun(e) ==
    /\ checksuites[e].workflowRun /= None
    /\ checksuites[e].conclusion = "CANCELLED"
    /\ \E d \in 1..(e - 1) : checksuites[d].workflowRun = checksuites[e].workflowRun

\* the check runs taken up from the suite at edge e
TakenFrom(e) == {k \in 1..Len(processed) : processed[k].edge = e}

SuitesTakenOrSkipped ==
    \A e \in 1..Len(checksuites) :
        IF CancelledRerun(e)
        THEN TakenFrom(e) = {}
        ELSE suite_pos.edge > e
                => /\ Cardinality(TakenFrom(e)) = Len(checksuites[e].checkRuns)
                   /\ \A k \in TakenFrom(e) :
                         processed[k].workflow = checksuites[e].workflowRun
                   /\ checksuites[e].workflowRun /= None
                         => workflow_index(workflows, checksuites[e].workflowRun) /= 0

SkipChangesNothing ==
    AtEdge /\ CancelledRerun(suite_pos.edge)
        => /\ UNCHANGED <<workflows, no_workflow_obj, processed>>
           /\ suite_pos' = [edge |-> suite_pos.edge + 1, run |-> 0]

\* C32: a check suite whose conclusion is CANCELLED and whose workflow name an
\* earlier suite carried contributes nothing: none of its check runs is taken
\* up and no recorded status changes. A CANCELLED suite that is the first of
\* its workflow name, and any suite without a workflow run, is processed as
\* the others: its workflow is entered and each of its check runs is taken up.
C32_CancelledRerunSkipped == []SuitesTakenOrSkipped /\ [][SkipChangesNothing]_vars

\* a CANCELLED suite of workflow A was processed, a second CANCELLED suite of
\* workflow A with a passing check run was left out
C32_Witness ==
    /\ conclusions /= <<>>
    /\ Len(checksuites) = 2
    /\ checksuites[1].workflowRun = "A" /\ checksuites[1].conclusion = "CANCELLED"
    /\ checksuites[1].checkRuns = <<[name |-> "x", conclusion |-> "FAILURE"]>>
    /\ checksuites[2].workflowRun = "A" /\ checksuites[2].conclusion = "CANCELLED"
    /\ checksuites[2].checkRuns = <<[name |-> "x", conclusion |-> "SUCCESS"]>>
    /\ conclusions[1]["A / x"].status = "FAILURE"

\* a CANCELLED suite without a workflow run follows another one and is processed
C32_WitnessNoWorkflow ==
    /\ conclusions /= <<>>
    /\ Len(checksuites) = 2
    /\ checksuites[1].workflowRun = None /\ checksuites[2].workflowRun = None
    /\ checksuites[2].conclusion = "CANCELLED"
    /\ TakenFrom(2) /= {}

-----------------------------------------------------------------------------
(* C33: the checks of the land validation win *)

\* what get_land_checkrun_conclusions gave for the call of 1625: nothing
\* without a land-check commit
LandChecksOfPoll == IF land_check_commit /= None THEN land_validation ELSE <<>>

\* C33: the combined checks hold one entry per name of the union of the PR
\* checks and the land-validation checks; for a name in both the entry of the
\* land validation is the one kept, so that a check failing on the PR and
\* passing on land validation is reported as passing, and the converse as
\* failing.
C33_LandValidationWins ==
    m_pc = "poll_eval" =>
        /\ DOMAIN poll_checks = DOMAIN checks \cup DOMAIN LandChecksOfPoll
        /\ \A n \in DOMAIN LandChecksOfPoll : poll_checks[n] = LandChecksOfPoll[n]
        /\ \A n \in DOMAIN checks \ DOMAIN LandChecksOfPoll : poll_checks[n] = checks[n]
        /\ \A n \in DOMAIN checks \cap DOMAIN LandChecksOfPoll :
              /\ checks[n].status = "FAILURE" /\ LandChecksOfPoll[n].status = "SUCCESS"
                    => is_passing_status(poll_checks[n].status)
              /\ checks[n].status = "SUCCESS" /\ LandChecksOfPoll[n].status = "FAILURE"
                    => poll_checks[n].status = "FAILURE"

\* Lint failed on the PR and passed on the land validation, pull is on the PR
\* only: the poll loop goes on to merge_into
C33_Witness ==
    /\ m_pc = "poll_call"
    /\ land_check_commit /= None
    /\ Lint_x \in DOMAIN checks /\ checks[Lint_x].status = "FAILURE"
    /\ checks[Lint_x].classification = None
    /\ Lint_x \in DOMAIN land_validation /\ land_validation[Lint_x].status = "SUCCESS"
    /\ pull_a \in DOMAIN checks /\ pull_a \notin DOMAIN land_validation

\* pull passed on the PR and failed on the land validation: the poll loop
\* raises for the failed job
C33_WitnessConverse ==
    /\ m_outcome.message = "failed_jobs"
    /\ land_check_commit /= None
    /\ pull_a \in DOMAIN checks /\ checks[pull_a].status = "SUCCESS"
    /\ pull_a \in DOMAIN land_validation /\ land_validation[pull_a].status = "FAILURE"
    /\ land_validation[pull_a].classification = None

-----------------------------------------------------------------------------
(* C34: the order of the conditions of get_classifications *)

\* the step is the loop over the checks of a call of get_classifications
ClassifyStep == class_pos.pc = "insert" /\ class_pos'.pc = "returned"

HeadJobExists(n) == n \in DOMAIN head_sha_jobs
BaseJobExists(n) == n \in DOMAIN merge_base_jobs

SameFailureOnBase(n) ==
    /\ HeadJobExists(n) /\ BaseJobExists(n)
    /\ head_sha_jobs[n].conclusion = merge_base_jobs[n].conclusion
    /\ head_sha_jobs[n].failure_captures = merge_base_jobs[n].failure_captures

CrashedEarly(n) == HeadJobExists(n) /\ head_sha_jobs[n].steps <= 1

SomeFlakyRuleMatches(n) ==
    /\ HeadJobExists(n)
    /\ \E k \in 1..Len(flaky_rules) :
          /\ Contains(flaky_rules[k].name, head_sha_jobs[n].name)
          /\ head_sha_jobs[n].failure_captures /= <<>>
          /\ Range(flaky_rules[k].captures)
                \subseteq Range(head_sha_jobs[n].failure_captures[1])

ClassifiedInOrder ==
    ClassifyStep =>
        /\ DOMAIN pr_conclusions' = DOMAIN pr_conclusions
        /\ \A n \in DOMAIN pr_conclusions :
              LET before == pr_conclusions[n]
                  after == pr_conclusions'[n]
                  succeeded == before.status = "SUCCESS"
              IN  /\ after.name = before.name /\ after.status = before.status
                  /\ succeeded => after.classification = before.classification
                  /\ ~succeeded /\ SameFailureOnBase(n)
                        => after.classification = "BROKEN_TRUNK"
                  /\ ~succeeded /\ ~SameFailureOnBase(n)
                     /\ (CrashedEarly(n) \/ SomeFlakyRuleMatches(n))
                        => after.classification = "FLAKY"
                  /\ ~succeeded /\ ~SameFailureOnBase(n) /\ ~CrashedEarly(n)
                     /\ ~SomeFlakyRuleMatches(n)
                        => after.classification = before.classification

\* C34: get_classifications returns the input check names with unchanged
\* statuses, gives no classification to a check whose status is SUCCESS, and
\* for every other check: BROKEN_TRUNK when the head job and the merge-base job
\* of the name both exist with equal conclusion and equal failure_captures;
\* else FLAKY when the head job exists with steps <= 1; else FLAKY when some
\* flaky rule matches the head job; else it gives no classification (the
\* field of the check is left as it was).
C34_ClassifiedInOrder == [][ClassifiedInOrder]_vars

\* the job failed alike on the merge base and has a single step: BROKEN_TRUNK
C34_Witness ==
    /\ class_pos.pc = "returned"
    /\ pr_conclusions[pull_a].status = "FAILURE"
    /\ SameFailureOnBase(pull_a) /\ CrashedEarly(pull_a)
    /\ pr_conclusions[pull_a].classification = "BROKEN_TRUNK"

\* only the flaky rule matches: FLAKY
C34_WitnessRule ==
    /\ class_pos.pc = "returned"
    /\ pr_conclusions[pull_a].status = None
    /\ ~SameFailureOnBase(pull_a) /\ ~CrashedEarly(pull_a)
    /\ SomeFlakyRuleMatches(pull_a)
    /\ pr_conclusions[pull_a].classification = "FLAKY"

\* the successful check has a head job that crashed early and is unclassified
C34_WitnessSuccess ==
    /\ class_pos.pc = "returned"
    /\ pr_conclusions[pull_a].status = "SUCCESS"
    /\ CrashedEarly(pull_a)
    /\ pr_conclusions[pull_a].classification = None

-----------------------------------------------------------------------------
(* C35: what insert keeps *)

\* the step is a call of insert on d
InsertKeeps(d, d_after) ==
    \A key \in DOMAIN d :
        /\ key \in DOMAIN d_after
        /\ d[key].conclusion = "success" => d_after[key] = d[key]
        /\ d_after[key] /= d[key] => d_after[key].id > d[key].id

\* C35: while get_classifications builds the maps of the historical jobs, a
\* stored entry whose conclusion is 'success' is never replaced, and a stored
\* entry of another conclusion is replaced only by an entry of a strictly
\* higher id.
C35_InsertKeeps ==
    [][class_pos.pc = "insert" /\ class_pos'.pc = "insert"
          => /\ InsertKeeps(head_sha_jobs, head_sha_jobs')
             /\ InsertKeeps(merge_base_jobs, merge_base_jobs')]_vars

\* a success of id 1 was kept against a later failure of id 2
C35_Witness ==
    /\ class_pos.pc = "returned"
    /\ Len(rockset_results) >= 2
    /\ rockset_results[1].id = 1 /\ rockset_results[1].at_head
    /\ rockset_results[1].conclusion = "success"
    /\ rockset_results[2].id = 2 /\ rockset_results[2].at_head
    /\ head_sha_jobs[pull_a].id = 1

\* a failure was replaced by a job of a higher id and kept against a lower one
C35_WitnessHigherId ==
    /\ class_pos.pc = "returned"
    /\ Len(rockset_results) = 3
    /\ \A k \in 1..3 : ~rockset_results[k].at_head
                       /\ rockset_results[k].conclusion = "failure"
    /\ rockset_results[1].id = 2 /\ rockset_results[2].id = 3
    /\ rockset_results[3].id = 1
    /\ merge_base_jobs[pull_a].id = 3

-----------------------------------------------------------------------------
(* C36: the order of the rows *)

\* the rows of the answer that belong to the head commit (or to the merge
\* base), by ascending id
RECURSIVE ByAscendingId(_)
ByAscendingId(rows) ==
    IF rows = {} THEN <<>>
    ELSE LET least == CHOOSE r \in rows : \A q \in rows : r.id <= q.id
         IN  <<least>> \o ByAscendingId(rows \ {least})

RowsOf(at_head) == {r \in Range(rockset_results) : r.at_head = at_head}

\* the dict that the loop of 1357-1362 builds from the rows in this order
RECURSIVE KeptFrom(_, _)
KeptFrom(rows, d) ==
    IF rows = <<>> THEN d
    ELSE KeptFrom(Tail(rows), insert(d, key_of(Head(rows)), Head(rows)))

\* C36: the entry kept for a key depends only on the set of rows returned for
\* the key: the rows in the order of the answer give the same entry as the
\* same rows in another order, that of ascending ids.
C36_OrderIndependent ==
    class_pos.pc = "returned" =>
        /\ head_sha_jobs = KeptFrom(ByAscendingId(RowsOf(TRUE)), <<>>)
        /\ merge_base_jobs = KeptFrom(ByAscendingId(RowsOf(FALSE)), <<>>)

\* when no row of the key has the conclusion 'success' the order is without
\* effect: the entry of the highest id is kept
C36_HighestIdWithoutSuccess ==
    class_pos.pc = "returned" =>
        \A at_head \in BOOLEAN :
            LET rows == RowsOf(at_head)
                kept == IF at_head THEN head_sha_jobs ELSE merge_base_jobs
            IN  rows /= {} /\ (\A r \in rows : r.conclusion /= "success")
                    => /\ pull_a \in DOMAIN kept
                       /\ \A r \in rows : r.id <= kept[pull_a].id

\* the rows of ids 1 (failure), 3 (failure), 2 (success) have been inserted
\* in this order
C36_ReachedThreeRows ==
    /\ class_pos.pc = "returned"
    /\ Len(rockset_results) = 3
    /\ \A k \in 1..3 : rockset_results[k].at_head
    /\ rockset_results[1].id = 1 /\ rockset_results[2].id = 3
    /\ rockset_results[3].id = 2 /\ rockset_results[3].conclusion = "success"
    /\ rockset_results[1].conclusion = "failure"
    /\ rockset_results[2].conclusion = "failure"

-----------------------------------------------------------------------------
(* C37: no classification is left from an earlier call *)

\* C37: after get_classifications a check that meets none of the conditions of
\* BROKEN_TRUNK and FLAKY against the historical data of that call has no
\* classification, also when the call is repeated on the checks of a snapshot
\* that an earlier call had classified.
C37_NothingLeftOver ==
    class_pos.pc = "returned" =>
        \A n \in DOMAIN pr_conclusions :
            /\ pr_conclusions[n].status /= "SUCCESS"
            /\ ~SameFailureOnBase(n) /\ ~CrashedEarly(n) /\ ~SomeFlakyRuleMatches(n)
            => pr_conclusions[n].classification = None

\* a check without historical job in any call is never classified
C37_NeverMatchedIsNil ==
    \A n \in DOMAIN pr_conclusions :
        n = Lint_x => pr_conclusions[n].classification = None

-----------------------------------------------------------------------------
(* C38: the push and the evaluation of merge_into *)

\* the effects that the step adds to the log
NewEffects == SubSeq(log', Len(log) + 1, Len(log'))
PushesNow == Len(log') > Len(log) /\ \E k \in 1..Len(NewEffects) : NewEffects[k].op = "push"

\* what merge_into does between its evaluation of the target and the push
InsideMergeInto == {"evaluate_pr", "cherry_pick", "amend"}

\* the evaluation of 1029 is the last one of the target, and nothing but the
\* work of merge_changes has happened since
EvaluatedInThisCall ==
    \E i \in 1..Len(log) :
        /\ log[i] = Effect("evaluate", "merge_into")
        /\ \A j \in (i + 1)..Len(log) : log[j].op \in InsideMergeInto

\* the target's snapshot, evaluated as merge_into evaluates it, gives a rule
TargetHasRule ==
    find_matching_merge_rule(PRView(land_check_commit), rules, skip_mandatory_checks,
                             can_skip_internal_checks(comment_id)).kind = "return"

PushedAfterEvaluation ==
    PushesNow =>
        /\ Positions("push") = {}
        /\ Cardinality({k \in 1..Len(NewEffects) : NewEffects[k].op = "push"}) = 1
        /\ EvaluatedInThisCall
        /\ TargetHasRule
        /\ outcome.kind = "return"

\* C38: in every run of merge(), with --force and with the bypass of the
\* trusted bot too, the default branch is pushed at most once, and only after
\* find_matching_merge_rule has returned a rule for the target PR inside the
\* same call of merge_into; the last evaluation before a push has succeeded.
C38_PushedAfterEvaluation == [][PushedAfterEvaluation]_vars

\* the forced merge has pushed
C38_Witness ==
    /\ m_pc = "returned" /\ Pushed
    /\ skip_mandatory_checks
    /\ Has("evaluate", "merge_into")

\* the poll loop has pushed in a later iteration, after an iteration that
\* ended in an exception and a sleep
C38_WitnessAfterPending ==
    /\ m_pc = "returned" /\ Pushed
    /\ Has("sleep", "300s")

\* a stack has been pushed
C38_WitnessStack ==
    /\ m_pc = "returned" /\ Pushed
    /\ \E i \in 1..Len(log) : log[i].op = "evaluate_pr"

\* merge_into has raised and the run ended without push
C38_WitnessRaised ==
    /\ MergeRaised
    /\ Has("evaluate", "merge_into")
    /\ Positions("push") = {}

-----------------------------------------------------------------------------
(* C39: one call of add_numbered_label('merged') for each merged PR *)

\* the calls of add_numbered_label("merged") on the PR of this number: the
\* call of 1041 on the target and the calls of the loop of 1042-1043
MergedLabelCalls(num) ==
    Cardinality({i \in 1..Len(log) :
                    \/ num = pr_num /\ log[i] = Effect("label", "merged")
                    \/ log[i] = Effect("label_merged_on", num)})

MergedWithLabels == m_outcome.kind = "merged" /\ ~dry_run

\* C39: after a successful merge that is no dry run add_numbered_label('merged')
\* has been called exactly once for each merged PR: once for the target and
\* once for each PR below it in a stacked merge, never twice for the same PR.
C39_LabelledOncePerPR ==
    MergedWithLabels =>
        /\ MergedLabelCalls(pr_num) = 1
        /\ \A k \in 1..Len(ghstack_prs) : MergedLabelCalls(ghstack_prs[k].num) = 1

\* the PRs below the target get one call each, and so does the target of a
\* merge that is not stacked
C39_OnceBelowTheTarget ==
    MergedWithLabels =>
        /\ \A k \in 1..Len(ghstack_prs) :
              ghstack_prs[k].num /= pr_num => MergedLabelCalls(ghstack_prs[k].num) = 1
        /\ ~is_ghstack_pr => MergedLabelCalls(pr_num) = 1

\* the target of a stacked merge gets two calls
C39_TwiceOnStackTarget ==
    MergedWithLabels /\ is_ghstack_pr => MergedLabelCalls(pr_num) = 2

\* a stack of at least two PRs has been merged and labelled
C39_ReachedStackMerged ==
    /\ MergedWithLabels /\ Len(ghstack_prs) >= 2
    /\ MergedLabelCalls(pr_num) = 2

-----------------------------------------------------------------------------
(* C40: a closed PR *)

\* the poll loop has built a snapshot, and the latest one says the PR is closed
LatestPollSnapshotClosed == Positions("snapshot") /= {} /\ pr_closed

ClosedAtInvocationRefused ==
    /\ m_pc = "main" /\ pr_closed
          => /\ m_pc' = "refused"
             /\ log' = <<Effect(IF dry_run THEN "print" ELSE "comment",
                                "cant_merge_closed")>>
    /\ m_pc = "refused" => FALSE

NoPushOfClosedSnapshot == PushesNow => ~LatestPollSnapshotClosed

\* C40: a closed PR is never merged: when the PR is closed at invocation main
\* posts a comment and never calls merge(), and no run pushes the PR to the
\* default branch when the latest snapshot built by the poll loop reports the
\* PR as closed.
C40_ClosedNeverMerged ==
    [][ClosedAtInvocationRefused /\ NoPushOfClosedSnapshot]_vars

\* the part about the invocation: main answers a closed PR with one comment and
\* takes no further step
C40_ClosedAtInvocationRefused == [][ClosedAtInvocationRefused]_vars

\* main has refused a closed PR
C40_ReachedRefused == m_pc = "refused" /\ Len(log) = 1

\* the PR was pushed although the latest snapshot of the poll loop was closed
C40_ReachedClosedPushed ==
    /\ m_pc = "returned" /\ Pushed /\ LatestPollSnapshotClosed

====
